---- MODULE Spec2Model ----
(***************************************************************************)
(* k3air: `k3air apply` as a state machine.                                *)
(*                                                                         *)
(*   main (src/main.go)  ->  config.Load / Config.Validate                 *)
(*                       ->  install.NewInstaller (AssetManager temp dir)  *)
(*                       ->  Installer.Apply: servers, agents, kubeconfig  *)
(*                       ->  deferred Installer.Cleanup / os.Exit          *)
(*                                                                         *)
(* Strings that the code inspects are modelled by their structure:         *)
(*   - an IP literal is the tuple of its dotted decimal fields;            *)
(*   - a CIDR string is [set, fam, addr, bits] over AddrBits-bit addresses;*)
(*   - an asset reference is [scheme, segs] (scheme "" = local path);      *)
(*   - a command line is the sequence of its arguments.                    *)
(***************************************************************************)
EXTENDS Integers, Sequences, FiniteSets, TLC

\* ------------------------------------------------------------------ bounds
MaxServers == 2
MaxAgents == 2
AddrBits == 3
MaxRuns == 2
MaxCalls == 3
MaxClusters == 2

\* ------------------------------------------------------------ small helpers
RECURSIVE Pow2(_)
Pow2(n) == IF n = 0 THEN 1 ELSE 2 * Pow2(n - 1)

Range(s) == {s[i] : i \in 1..Len(s)}

Last(s) == s[Len(s)]

\* ---------------------------------------------------- config.Node / Cluster
DefaultPort == 22

Node(name, ip, labels) ==
  [NodeName |-> name, IP |-> ip, Port |-> 0, User |-> "", Password |-> "pw",
   KeyPath |-> "", Labels |-> labels]

\* An unset string field of the YAML document.
NoCidr == [set |-> FALSE, fam |-> 4, addr |-> 0, bits |-> 0]

Cidr(fam, addr, bits) == [set |-> TRUE, fam |-> fam, addr |-> addr, bits |-> bits]

NoPath == [scheme |-> "", segs |-> << >>]

LocalPath(segs) == [scheme |-> "", segs |-> segs]

Url(scheme, segs) == [scheme |-> scheme, segs |-> segs]

\* ------------------------------------------------------- net.ParseCIDR model
\* bits > AddrBits stands for every string net.ParseCIDR refuses.
CidrWellFormed(s) == s.set /\ s.bits <= AddrBits /\ s.addr < Pow2(AddrBits)

MaskAddr(addr, bits) == addr - (addr % Pow2(AddrBits - bits))

\* The *net.IPNet of `_, cidr, err := net.ParseCIDR(s)`: the masked address.
ParseCIDR(s) == [fam |-> s.fam, ip |-> MaskAddr(s.addr, s.bits), bits |-> s.bits]

\* (*IPNet).Contains: false across address families.
Contains(n, fam, ip) == fam = n.fam /\ MaskAddr(ip, n.bits) = n.ip

cidrsEqual(a, b) == a.fam = b.fam /\ a.ip = b.ip /\ a.bits = b.bits

cidrsOverlap_OneWay(a, b) == Contains(a, b.fam, b.ip)

cidrsOverlap(a, b) == Contains(a, b.fam, b.ip) \/ Contains(b, a.fam, a.ip)

\* --------------------------------------------------------- net.ParseIP model
\* Dotted decimal: four fields, each 0..255.  << >> is the empty string.
ParseIPOk(ip) == Len(ip) = 4 /\ \A i \in 1..4 : ip[i] \in 0..255

NoError == [kind |-> "none", node |-> "", field |-> ""]

ValidationError(kind, node, field) == [kind |-> kind, node |-> node, field |-> field]

validateNodeIP_NoParse(node) ==
  IF node.IP = << >> THEN "ip address is empty" ELSE "ok"

validateNodeIP(node) ==
  IF node.IP = << >> THEN "ip address is empty"
  ELSE IF ~ParseIPOk(node.IP) THEN "invalid ip address"
  ELSE "ok"

BadNodes(nodes) == {i \in 1..Len(nodes) : validateNodeIP(nodes[i]) # "ok"}

FirstBad(nodes) == CHOOSE i \in BadNodes(nodes) : \A j \in BadNodes(nodes) : i <= j

\* --------------------------------------------------------- Config.Validate
Validate(c) ==
  IF ~CidrWellFormed(c.Cluster.ClusterCidr)
    THEN ValidationError("invalid-cidr", "", "cluster-cidr")
  ELSE IF ~CidrWellFormed(c.Cluster.ServiceCidr)
    THEN ValidationError("invalid-cidr", "", "service-cidr")
  ELSE IF cidrsEqual(ParseCIDR(c.Cluster.ClusterCidr), ParseCIDR(c.Cluster.ServiceCidr))
    THEN ValidationError("same-cidr", "", "")
  ELSE IF cidrsOverlap(ParseCIDR(c.Cluster.ClusterCidr), ParseCIDR(c.Cluster.ServiceCidr))
    THEN ValidationError("overlap", "", "")
  ELSE IF BadNodes(c.Servers) # {}
    THEN ValidationError("server", c.Servers[FirstBad(c.Servers)].NodeName,
                         validateNodeIP(c.Servers[FirstBad(c.Servers)]))
  ELSE IF BadNodes(c.Agents) # {}
    THEN ValidationError("agent", c.Agents[FirstBad(c.Agents)].NodeName,
                         validateNodeIP(c.Agents[FirstBad(c.Agents)]))
  ELSE NoError

\* ------------------------------------------------------------- config.Load
\* "10.42.0.0/16" and "10.43.0.0/16": two sibling blocks (prefixes 10 and 11).
DefaultClusterCidr == Cidr(4, 2 * Pow2(AddrBits - 2), 2)

DefaultServiceCidr == Cidr(4, 3 * Pow2(AddrBits - 2), 2)

DefaultDataDir == "/var/lib/rancher/k3s"

DefaultK3sBinary == LocalPath(<<"k3s">>)

DefaultTarball == LocalPath(<<"k3s-airgap-images-amd64.tar.gz">>)

WithDefaultPort(nodes) ==
  [i \in 1..Len(nodes) |->
     IF nodes[i].Port = 0 THEN [nodes[i] EXCEPT !.Port = DefaultPort] ELSE nodes[i]]

WithDefaults_NoTarballDefault(c) ==
  [Cluster |->
     [c.Cluster EXCEPT
        !.ClusterCidr = IF ~c.Cluster.ClusterCidr.set THEN DefaultClusterCidr ELSE @,
        !.ServiceCidr = IF ~c.Cluster.ServiceCidr.set THEN DefaultServiceCidr ELSE @,
        !.DataDir = IF @ = "" THEN DefaultDataDir ELSE @,
        !.FlannelBackend = IF @ = "" THEN "vxlan" ELSE @],
   Assets |->
     [K3sBinary |-> IF c.Assets.K3sBinary = NoPath THEN DefaultK3sBinary
                    ELSE c.Assets.K3sBinary,
      K3sAirgapTarball |-> c.Assets.K3sAirgapTarball],
   Servers |-> WithDefaultPort(c.Servers),
   Agents |-> WithDefaultPort(c.Agents)]

\* Load, lines 54-82: the defaults applied to the unmarshalled document.
WithDefaults(c) ==
  [Cluster |->
     [c.Cluster EXCEPT
        !.ClusterCidr = IF ~c.Cluster.ClusterCidr.set THEN DefaultClusterCidr ELSE @,
        !.ServiceCidr = IF ~c.Cluster.ServiceCidr.set THEN DefaultServiceCidr ELSE @,
        !.DataDir = IF @ = "" THEN DefaultDataDir ELSE @,
        !.FlannelBackend = IF @ = "" THEN "vxlan" ELSE @],
   Assets |->
     [K3sBinary |-> IF c.Assets.K3sBinary = NoPath THEN DefaultK3sBinary
                    ELSE c.Assets.K3sBinary,
      K3sAirgapTarball |-> IF c.Assets.K3sAirgapTarball = NoPath THEN DefaultTarball
                           ELSE c.Assets.K3sAirgapTarball],
   Servers |-> WithDefaultPort(c.Servers),
   Agents |-> WithDefaultPort(c.Agents)]

\* Load, lines 83-86: the error Load returns for the document c.
LoadError_NoValidate(c) == NoError

LoadError(c) == Validate(WithDefaults(c))

\* ---------------------------------------------------------- input documents
MinimalCluster ==
  [FlannelBackend |-> "", ClusterCidr |-> NoCidr, ServiceCidr |-> NoCidr,
   Token |-> "", TLSSAN |-> << >>, Disable |-> << >>, DataDir |-> "",
   EmbeddedRegistry |-> FALSE, Registries |-> ""]

FullCluster ==
  [FlannelBackend |-> "host-gw", ClusterCidr |-> NoCidr, ServiceCidr |-> NoCidr,
   Token |-> "k3air-token", TLSSAN |-> <<"san1", "">>, Disable |-> <<"traefik">>,
   DataDir |-> "/data/k3s", EmbeddedRegistry |-> TRUE, Registries |-> "mirrors"]

ClusterPresets == {MinimalCluster, FullCluster}

\* Pod/service range pairs of the run: defaults, identical after defaults,
\* overlapping, and a string net.ParseCIDR refuses.
RunCidrPairs ==
  { <<NoCidr, NoCidr>>,
    <<NoCidr, DefaultClusterCidr>>,
    <<Cidr(4, 0, 1), Cidr(4, 0, 2)>>,
    <<Cidr(4, 0, AddrBits + 1), NoCidr>> }

GoodIP(k) == <<10, 0, 0, k>>

BadIPs == { << >>, <<10, 0, 0, 256>> }

ServerNames == <<"k3s-server-0", "k3s-server-1", "k3s-server-2", "k3s-server-3">>

AgentNames == <<"k3s-agent-0", "k3s-agent-1", "k3s-agent-2", "k3s-agent-3">>

\* The credentials a node declares: password, key_path, or both.
WithCredentials(node, password, keyPath) ==
  [node EXCEPT !.Password = password, !.KeyPath = keyPath]

\* The first server declares a password only, every later one both.
ServerNode(k, ip) ==
  WithCredentials(Node(ServerNames[k], ip, <<"role=cp", "">>),
                  "pw", IF k = 1 THEN "" ELSE "/root/.ssh/id_rsa")

\* The first agent declares a key only, every later one both.
AgentNode(k, ip) ==
  WithCredentials(Node(AgentNames[k], ip, <<"disk=ssd">>),
                  IF k = 1 THEN "" ELSE "pw", "/root/.ssh/id_rsa")

\* Node lists with at most one bad address, at list position bad (0: none).
ServerLists ==
  { [k \in 1..n |-> ServerNode(k, IF k = bad THEN ip ELSE GoodIP(k))] :
      <<n, bad, ip>> \in {t \in (0..MaxServers) \X (0..MaxServers) \X BadIPs :
                            /\ t[2] <= t[1]
                            /\ (t[2] = 0 => t[3] = << >>)} }

AgentLists ==
  { [k \in 1..n |-> AgentNode(k, IF k = bad THEN ip ELSE GoodIP(100 + k))] :
      <<n, bad, ip>> \in {t \in (0..MaxAgents) \X (0..MaxAgents) \X BadIPs :
                            /\ t[2] <= t[1]
                            /\ (t[2] = 0 => t[3] = << >>)} }

BinaryUrl == Url("https", <<"dl.example", "k3s">>)

TarballUrl == Url("http", <<"dl.example", "images.tar.gz">>)

AssetChoices ==
  [K3sBinary : {NoPath, BinaryUrl}, K3sAirgapTarball : {NoPath, TarballUrl}]

\* Local files the references may name; a URL's local namesake is irrelevant.
LocalCandidates(assets) ==
  (IF assets.K3sBinary = NoPath THEN {DefaultK3sBinary} ELSE {})
    \cup (IF assets.K3sAirgapTarball = NoPath THEN {DefaultTarball} ELSE {})

RunConfigs ==
  { [Cluster |-> [cl EXCEPT !.ClusterCidr = pair[1], !.ServiceCidr = pair[2]],
     Assets |-> as, Servers |-> ss, Agents |-> ags] :
      <<cl, pair, as, ss, ags>> \in
        ClusterPresets \X RunCidrPairs \X AssetChoices \X ServerLists \X AgentLists }

\* ------------------------------------------- unit text (ExecStart arguments)
\* A command line is the sequence of its arguments; an argument is its text,
\* with the address a %s verb was given kept beside it.
Arg(t) == [t |-> t, ip |-> << >>]

JoinTarget(ip) == [t |-> "https://%s:6443", ip |-> ip]

CidrArg(c) == [t |-> "%s/%d", ip |-> <<c.fam, c.addr, c.bits>>]

RECURSIVE FlagEach(_, _)
FlagEach(flag, values) ==
  IF values = << >> THEN << >>
  ELSE (IF Head(values) # "" THEN <<Arg(flag), Arg(Head(values))>> ELSE << >>)
         \o FlagEach(flag, Tail(values))

FlagIfSet(flag, value) == IF value # "" THEN <<Arg(flag), Arg(value)>> ELSE << >>

unitService(name, exec) == [name |-> name, args |-> exec]

serverServiceContent_TokenFirst(cluster, node, primaryIP, isPrimary) ==
  unitService("k3s",
    <<Arg("/usr/local/bin/k3s")>>
      \o (IF isPrimary THEN <<Arg("server"), Arg("--cluster-init")>>
          ELSE <<Arg("server"), Arg("--server"), JoinTarget(primaryIP)>>)
      \o <<Arg("--token"), Arg(cluster.Token)>>
      \o FlagIfSet("--flannel-backend", cluster.FlannelBackend)
      \o (IF cluster.ClusterCidr.set
            THEN <<Arg("--cluster-cidr"), CidrArg(cluster.ClusterCidr)>> ELSE << >>)
      \o (IF cluster.ServiceCidr.set
            THEN <<Arg("--service-cidr"), CidrArg(cluster.ServiceCidr)>> ELSE << >>)
      \o FlagIfSet("--data-dir", cluster.DataDir)
      \o FlagIfSet("--node-name", node.NodeName)
      \o (IF cluster.EmbeddedRegistry THEN <<Arg("--embedded-registry")>> ELSE << >>)
      \o FlagEach("--tls-san", cluster.TLSSAN)
      \o FlagEach("--disable", cluster.Disable)
      \o FlagEach("--node-label", node.Labels))

serverServiceContent(cluster, node, primaryIP, isPrimary) ==
  unitService("k3s",
    <<Arg("/usr/local/bin/k3s")>>
      \o (IF isPrimary THEN <<Arg("server"), Arg("--cluster-init")>>
          ELSE <<Arg("server"), Arg("--server"), JoinTarget(primaryIP)>>)
      \o FlagIfSet("--flannel-backend", cluster.FlannelBackend)
      \o (IF cluster.ClusterCidr.set
            THEN <<Arg("--cluster-cidr"), CidrArg(cluster.ClusterCidr)>> ELSE << >>)
      \o (IF cluster.ServiceCidr.set
            THEN <<Arg("--service-cidr"), CidrArg(cluster.ServiceCidr)>> ELSE << >>)
      \o FlagIfSet("--data-dir", cluster.DataDir)
      \o FlagIfSet("--node-name", node.NodeName)
      \o (IF cluster.EmbeddedRegistry THEN <<Arg("--embedded-registry")>> ELSE << >>)
      \o FlagEach("--tls-san", cluster.TLSSAN)
      \o FlagEach("--disable", cluster.Disable)
      \o FlagEach("--node-label", node.Labels)
      \o <<Arg("--token"), Arg(cluster.Token)>>)

agentServiceContent_WithServerFlags(cluster, node, primaryIP) ==
  unitService("k3s-agent",
    <<Arg("/usr/local/bin/k3s"), Arg("agent"), Arg("--server"), JoinTarget(primaryIP)>>
      \o FlagIfSet("--data-dir", cluster.DataDir)
      \o FlagIfSet("--node-name", node.NodeName)
      \o FlagEach("--disable", cluster.Disable)
      \o FlagEach("--node-label", node.Labels)
      \o <<Arg("--token"), Arg(cluster.Token)>>)

agentServiceContent(cluster, node, primaryIP) ==
  unitService("k3s-agent",
    <<Arg("/usr/local/bin/k3s"), Arg("agent"), Arg("--server"), JoinTarget(primaryIP)>>
      \o FlagIfSet("--data-dir", cluster.DataDir)
      \o FlagIfSet("--node-name", node.NodeName)
      \o FlagEach("--node-label", node.Labels)
      \o <<Arg("--token"), Arg(cluster.Token)>>)

\* uninstallScriptContent / agentUninstallScriptContent: the template's data.
uninstallScriptContent(cluster) ==
  [DataDir |-> IF cluster.DataDir = "" THEN DefaultDataDir ELSE cluster.DataDir,
   IsAgent |-> FALSE]

agentUninstallScriptContent(cluster) ==
  [DataDir |-> IF cluster.DataDir = "" THEN DefaultDataDir ELSE cluster.DataDir,
   IsAgent |-> TRUE]

\* filepath.Join drops empty elements.
JoinPath(elems) == SelectSeq(elems, LAMBDA e : e # "")

\* ------------------------------------------------------------ AssetManager
isURL(source) == source.scheme \in {"http", "https"}

\* getFilenameFromURL: the final "/"-separated segment of the URL's path.
getFilenameFromURL(source) == IF source.segs = << >> THEN "" ELSE Last(source.segs)

TempPath(filename) == LocalPath(<<"$TMPDIR", "k3air-assets", filename>>)

HintedNames_BinaryOnly == { LocalPath(<<"k3s">>), LocalPath(<<".", "k3s">>) }

HintedNames ==
  { LocalPath(<<"k3s">>), LocalPath(<<".", "k3s">>),
    LocalPath(<<"k3s-airgap-images-amd64.tar.gz">>),
    LocalPath(<<".", "k3s-airgap-images-amd64.tar.gz">>) }

\* What one ResolveAsset call returns and leaves: (path, err), whether the
\* error text carries a hint, whether an HTTP GET was issued, and the
\* AssetManager's directory and record after the call.
Resolved(ok, path, hint, dir, dl) ==
  [ok |-> ok, path |-> path, hint |-> hint, get |-> FALSE, tempDir |-> dir,
   downloadedFiles |-> dl]

\* AssetManager.download and the URL branch of ResolveAsset: every outcome the
\* file system and the network allow.  os.Create fails on a missing directory
\* and on the names "." and ".."; it leaves the file behind when the transfer
\* fails afterwards.
DownloadOutcomes(source, dir, dl) ==
  IF getFilenameFromURL(source) \in {"", ".", ".."} \/ ~dir.exists
    THEN { Resolved(FALSE, NoPath, FALSE, dir, dl) }
    ELSE LET f == getFilenameFromURL(source)
             made == [dir EXCEPT !.files = @ \cup {f}] IN
           { Resolved(FALSE, NoPath, FALSE, dir, dl),
             [Resolved(FALSE, NoPath, FALSE, made, dl) EXCEPT !.get = TRUE],
             [Resolved(TRUE, TempPath(f), FALSE, made, Append(dl, TempPath(f)))
                EXCEPT !.get = TRUE] }

\* os.Stat(source) == nil: "./x" and "x" name the same file.
Stat(source, files) ==
  [source EXCEPT !.segs = SelectSeq(@, LAMBDA seg : seg # ".")] \in files

ResolveAsset_CopyLocal(source, files, dir, dl) ==
  IF isURL(source) THEN DownloadOutcomes(source, dir, dl)
  ELSE IF ~Stat(source, files)
    THEN { Resolved(FALSE, NoPath, source \in HintedNames, dir, dl) }
  ELSE { Resolved(TRUE, TempPath(Last(source.segs)), FALSE,
                  [dir EXCEPT !.files = @ \cup {Last(source.segs)}],
                  Append(dl, TempPath(Last(source.segs)))) }

\* ResolveAsset(source, description) on AssetManager state (dir, dl) with the
\* local files `files`: the set of results it may return.
ResolveAsset(source, files, dir, dl) ==
  IF isURL(source) THEN DownloadOutcomes(source, dir, dl)
  ELSE IF ~Stat(source, files)
    THEN { Resolved(FALSE, NoPath, source \in HintedNames, dir, dl) }
  ELSE { Resolved(TRUE, source, FALSE, dir, dl) }

\* ------------------------------------------------- replaceKubeconfigServer
\* A fetched document: whether it parses as a YAML mapping, whether it has a
\* clusters list, and per entry whether cluster.server is a string, and its
\* value as the sequence of the URL's parts.
Doc(clusters) == [yaml |-> TRUE, hasClusters |-> TRUE, clusters |-> clusters]

ClusterEntry(server) == [hasServer |-> TRUE, server |-> server]

IPArg(ip) == [t |-> "%s", ip |-> ip]

\* The text "127.0.0.1": what the address 127.0.0.1 is also written as.
Loopback == IPArg(<<127, 0, 0, 1>>)

ReplaceLoopback_FirstOnly(url, serverIP) ==
  [i \in 1..Len(url) |->
     IF url[i] = Loopback /\ (\A j \in 1..(i - 1) : url[j] # Loopback)
       THEN IPArg(serverIP) ELSE url[i]]

\* strings.ReplaceAll(serverURL, "127.0.0.1", serverIP)
ReplaceLoopback(url, serverIP) ==
  [i \in 1..Len(url) |-> IF url[i] = Loopback THEN IPArg(serverIP) ELSE url[i]]

Patched(doc, replaced, err) == [doc |-> doc, replaced |-> replaced, err |-> err]

replaceKubeconfigServer_FailOnShape(data, serverIP) ==
  IF ~data.yaml THEN Patched(data, FALSE, TRUE)
  ELSE IF ~(data.hasClusters /\ Len(data.clusters) > 0 /\ data.clusters[1].hasServer)
    THEN Patched(data, FALSE, TRUE)
  ELSE IF ReplaceLoopback(data.clusters[1].server, serverIP) # data.clusters[1].server
    THEN Patched([data EXCEPT !.clusters[1].server = ReplaceLoopback(@, serverIP)],
                 TRUE, FALSE)
  ELSE Patched(data, FALSE, FALSE)

\* replaceKubeconfigServer, 474-501: (modified, replaced, err).
replaceKubeconfigServer(data, serverIP) ==
  IF ~data.yaml THEN Patched(data, FALSE, TRUE)
  ELSE IF /\ data.hasClusters
          /\ Len(data.clusters) > 0
          /\ data.clusters[1].hasServer
          /\ ReplaceLoopback(data.clusters[1].server, serverIP) # data.clusters[1].server
    THEN Patched([data EXCEPT !.clusters[1].server = ReplaceLoopback(@, serverIP)],
                 TRUE, FALSE)
  ELSE Patched(data, FALSE, FALSE)

LoopbackUrl == <<Arg("https://"), Loopback, Arg(":6443")>>

OtherUrl == <<Arg("https://"), Arg("10.9.9.9"), Arg(":6443")>>

\* What the primary may hold at a credential path.
RemoteDocs ==
  { [yaml |-> FALSE, hasClusters |-> FALSE, clusters |-> << >>],
    [yaml |-> TRUE, hasClusters |-> FALSE, clusters |-> << >>],
    Doc(<< >>),
    Doc(<<[hasServer |-> FALSE, server |-> << >>], ClusterEntry(LoopbackUrl)>>),
    Doc(<<ClusterEntry(LoopbackUrl)>>),
    Doc(<<ClusterEntry(OtherUrl), ClusterEntry(LoopbackUrl)>>) }

\* ------------------------------------------------------------------- state
VARIABLES
  cfg,              \* the document, then (after Load) the Config of the run
  localFiles,       \* local paths os.Stat finds
  kubeconfigLocal,  \* the local file "kubeconfig": [exists, content]
  pc,               \* where main / Apply stands
  cur,              \* position of the node being provisioned (servers, then agents)
  loadErr,          \* what config.Load returned
  tempDir,          \* the AssetManager's directory: [exists, files]
  downloadedFiles,  \* AssetManager.downloadedFiles
  sessions,         \* open sshclient.Clients
  remote,           \* per position: what the node holds
  nodeState,        \* per position: "pending" | "running" | "done" | "failed"
  log,              \* every remote call and asset resolution, in order
  warnings,         \* slog.Warn records
  applyErr,         \* what Apply returned
  kcErr,            \* what downloadKubeconfig returned
  kcContent,        \* the document downloadKubeconfig holds
  exitCode,         \* process exit status (-1 while running)
  cleanups,         \* number of Installer.Cleanup calls
  validateResult,   \* result of a direct Config.Validate call
  run,              \* which invocation of `k3air apply` this process is
  arg,              \* the last direct call of a function under test
  ret,              \* what that call returned
  calls,            \* number of direct calls made so far
  initYaml          \* the file init.yaml of the working directory

vars ==
  <<cfg, localFiles, kubeconfigLocal, pc, cur, loadErr, tempDir, downloadedFiles,
    sessions, remote, nodeState, log, warnings, applyErr, kcErr, kcContent, exitCode,
    cleanups, validateResult, run, arg, ret, calls, initYaml>>

\* ------------------------------------------------------------ run positions
NumServers == Len(cfg.Servers)

NumNodes == Len(cfg.Servers) + Len(cfg.Agents)

IsServer(p) == p <= NumServers

NodeAt_AgentsFirst(p) ==
  IF p <= Len(cfg.Agents) THEN cfg.Agents[p] ELSE cfg.Servers[p - Len(cfg.Agents)]

\* Apply, lines 59-71: the p-th node the two loops reach, servers first.
NodeAt(p) == IF IsServer(p) THEN cfg.Servers[p] ELSE cfg.Agents[p - NumServers]

\* A remote command line: its text, with the path a %s verb was given.
Cmd(text) == [text |-> text, path |-> << >>]

CmdOn(text, path) == [text |-> text, path |-> path]

\* An error value: the step of the node sequence that produced it (position
\* and step), and for a runCmd error the command text and the two captured
\* streams that its message carries.
NoErr == [pos |-> 0, op |-> "none", cmd |-> Cmd(""), stdout |-> "", stderr |-> ""]

Err(p, op) == [pos |-> p, op |-> op, cmd |-> Cmd(""), stdout |-> "", stderr |-> ""]

\* Client.Run, sshclient.go 92-104: what the command wrote to the two streams
\* and whether an error came back: the command exits zero; no session can be
\* opened (both streams empty); the command exits non-zero after writing to
\* both streams.
ClientRun ==
  { [stdout |-> "out", stderr |-> "", failed |-> FALSE],
    [stdout |-> "", stderr |-> "", failed |-> TRUE],
    [stdout |-> "out", stderr |-> "permission denied", failed |-> TRUE] }

runCmd_DropStreams(p, op, cmd, r) ==
  IF r.failed THEN [Err(p, op) EXCEPT !.cmd = cmd] ELSE NoErr

\* runCmd, 416-422: the error of a failed command, made of the command text,
\* stdout and stderr (p and op say which step of which node ran it).
runCmd(p, op, cmd, r) ==
  IF r.failed
    THEN [pos |-> p, op |-> op, cmd |-> cmd, stdout |-> r.stdout, stderr |-> r.stderr]
    ELSE NoErr

\* One remote call as the log keeps it: where, what, whether it succeeded, and
\* for a command that failed what it wrote to its two streams.
Entry(p, phase, op, ok) ==
  [pos |-> p, node |-> NodeAt(p).NodeName, phase |-> phase, op |-> op, ok |-> ok,
   stdout |-> "", stderr |-> ""]

FailedRun(p, phase, op, r) ==
  [Entry(p, phase, op, FALSE) EXCEPT !.stdout = r.stdout, !.stderr = r.stderr]

NoDoc == [yaml |-> FALSE, hasClusters |-> FALSE, clusters |-> << >>]

NoUnit == [name |-> "", args |-> << >>]

NoScript == [DataDir |-> "", IsAgent |-> FALSE]

\* No function has been called directly.
NoCall == [op |-> "none", source |-> NoPath, prev |-> [op |-> "none", ok |-> FALSE]]

NoReturn == [ok |-> FALSE, path |-> NoPath, hint |-> FALSE, get |-> FALSE]

\* A file of the working directory that holds a configuration document.
ConfigFile(doc) == [exists |-> TRUE, content |-> doc]

\* No init.yaml (exists = FALSE); its content field is then the empty document,
\* which is also what a created but unwritten file holds.
NoFile ==
  [exists |-> FALSE,
   content |-> [Cluster |-> MinimalCluster,
                Assets |-> [K3sBinary |-> NoPath, K3sAirgapTarball |-> NoPath],
                Servers |-> << >>, Agents |-> << >>]]

FreshNode ==
  [dirs |-> {}, files |-> {}, exec |-> {}, unit |-> NoUnit, uninstall |-> NoScript,
   reloaded |-> FALSE, enabled |-> FALSE, started |-> FALSE, kubectl |-> FALSE]

Init ==
  /\ cfg \in RunConfigs
  /\ localFiles \in SUBSET LocalCandidates(cfg.Assets)
  /\ kubeconfigLocal = [exists |-> FALSE, content |-> NoDoc]
  /\ pc = "main"
  /\ cur = 0
  /\ loadErr = NoError
  /\ tempDir = [exists |-> FALSE, files |-> {}]
  /\ downloadedFiles = << >>
  /\ sessions = {}
  /\ remote = [p \in 1..(Len(cfg.Servers) + Len(cfg.Agents)) |-> FreshNode]
  /\ nodeState = [p \in 1..(Len(cfg.Servers) + Len(cfg.Agents)) |-> "pending"]
  /\ log = << >>
  /\ warnings = << >>
  /\ applyErr = NoErr
  /\ kcErr = NoErr
  /\ kcContent = NoDoc
  /\ exitCode = -1
  /\ cleanups = 0
  /\ validateResult = NoError
  /\ run = 1
  /\ arg = NoCall
  /\ ret = NoReturn
  /\ calls = 0
  /\ initYaml = ConfigFile(cfg)

\* ---------------------------------------------------------- main, apply case
\* main.go 119-123: config.Load; a failure prints and exits with status 1.
\* A document that cannot be read or unmarshalled fails the same way.
MainLoad ==
  /\ pc = "main"
  /\ \E readable \in BOOLEAN :
       LET err == IF readable THEN LoadError(cfg)
                  ELSE ValidationError("read", "", "") IN
         /\ loadErr' = err
         /\ IF err = NoError
              THEN /\ cfg' = WithDefaults(cfg)
                   /\ pc' = "newInstaller"
                   /\ exitCode' = exitCode
              ELSE /\ cfg' = cfg
                   /\ pc' = "exited"
                   /\ exitCode' = 1
  /\ UNCHANGED <<localFiles, kubeconfigLocal, cur, tempDir, downloadedFiles, sessions,
                 remote, nodeState, log, warnings, applyErr, kcErr, kcContent,
                 cleanups, validateResult, run, arg, ret, calls, initYaml>>

\* main.go 126-130 and NewInstaller / NewAssetManager: os.MkdirTemp.
MainNewInstaller ==
  /\ pc = "newInstaller"
  /\ \E ok \in BOOLEAN :
       IF ok
         THEN /\ tempDir' = [exists |-> TRUE, files |-> {}]
              /\ pc' = "apply"
              /\ exitCode' = exitCode
         ELSE /\ tempDir' = tempDir
              /\ pc' = "exited"
              /\ exitCode' = 1
  /\ UNCHANGED <<cfg, localFiles, kubeconfigLocal, cur, loadErr, downloadedFiles,
                 sessions, remote, nodeState, log, warnings, applyErr, kcErr, kcContent,
                 cleanups, validateResult, run, arg, ret, calls, initYaml>>

\* ------------------------------------------------------- Installer.Apply
fixedInApply == <<cfg, localFiles, loadErr, exitCode, cleanups, validateResult, run, arg, ret, calls, initYaml>>

kcVars == <<kubeconfigLocal, kcErr, kcContent>>

amVars == <<tempDir, downloadedFiles>>

\* sshclient.New, lines 36-53: the candidate authentication mechanisms, in order.
AuthMethods(node) ==
  (IF node.Password # "" THEN <<"password">> ELSE << >>)
    \o (IF node.KeyPath # "" THEN <<"publickey">> ELSE << >>)

Session(p, phase) == [pos |-> p, phase |-> phase, auth |-> AuthMethods(NodeAt(p))]

isPrimaryAt_LastServer(idx) == idx = NumServers

\* Apply, line 60: isPrimary := idx == 0 (positions here count from 1).
isPrimaryAt(idx) == idx = 1

\* Apply, line 58: primary := i.cfg.Servers[0].
Primary == cfg.Servers[1]

ApplyStart_Resume ==
  /\ pc = "apply"
  /\ IF Len(cfg.Servers) = 0
       THEN /\ applyErr' = Err(0, "no servers defined")
            /\ pc' = "applyReturned"
            /\ cur' = cur
       ELSE IF \E p \in 1..NumNodes : ~remote[p].started
         THEN /\ applyErr' = applyErr
              /\ pc' = "connect"
              /\ cur' = CHOOSE p \in 1..NumNodes :
                          /\ ~remote[p].started
                          /\ \A q \in 1..(p - 1) : remote[q].started
         ELSE /\ applyErr' = applyErr
              /\ pc' = "kcConnect"
              /\ cur' = cur
  /\ UNCHANGED <<sessions, remote, nodeState, log, warnings>>
  /\ UNCHANGED <<fixedInApply, kcVars, amVars>>

ApplyStart_NoEmptyCheck ==
  /\ pc = "apply"
  /\ IF NumNodes = 0
       THEN /\ applyErr' = NoErr
            /\ pc' = "applyReturned"
            /\ cur' = cur
       ELSE /\ applyErr' = applyErr
            /\ pc' = "connect"
            /\ cur' = 1
  /\ UNCHANGED <<sessions, remote, nodeState, log, warnings>>
  /\ UNCHANGED <<fixedInApply, kcVars, amVars>>

\* Apply, lines 55-58.
ApplyStart ==
  /\ pc = "apply"
  /\ IF Len(cfg.Servers) = 0
       THEN /\ applyErr' = Err(0, "no servers defined")
            /\ pc' = "applyReturned"
            /\ cur' = cur
       ELSE /\ applyErr' = applyErr
            /\ pc' = "connect"
            /\ cur' = 1
  /\ UNCHANGED <<sessions, remote, nodeState, log, warnings>>
  /\ UNCHANGED <<fixedInApply, kcVars, amVars>>

ApplyOnNodeError_Continue(p, err) ==
  /\ applyErr' = applyErr
  /\ IF p < NumNodes
       THEN cur' = p + 1 /\ pc' = "connect"
       ELSE cur' = cur /\ pc' = "kcConnect"

ApplyOnNodeError_StartOver(p, err) ==
  IF p = 1
    THEN /\ applyErr' = err
         /\ pc' = "applyReturned"
         /\ cur' = cur
    ELSE /\ applyErr' = applyErr
         /\ pc' = "connect"
         /\ cur' = 1

\* Apply, lines 62-64 and 68-70: a node's error is returned at once.
ApplyOnNodeError(p, err) ==
  /\ applyErr' = err
  /\ pc' = "applyReturned"
  /\ cur' = cur

ApplyOnNodeDone_FetchAfterServers(p) ==
  /\ applyErr' = applyErr
  /\ IF p < NumServers
       THEN cur' = p + 1 /\ pc' = "connect"
       ELSE cur' = cur /\ pc' = "kcConnect"

\* Apply, lines 59-72: the loops move on to the next server, the next agent,
\* and then to downloadKubeconfig.
ApplyOnNodeDone(p) ==
  /\ applyErr' = applyErr
  /\ IF p < NumNodes
       THEN cur' = p + 1 /\ pc' = "connect"
       ELSE cur' = cur /\ pc' = "kcConnect"

InstallFail_LeaveOpen(entry, err) ==
  /\ log' = Append(log, entry)
  /\ sessions' = sessions
  /\ nodeState' = [nodeState EXCEPT ![cur] = "failed"]
  /\ ApplyOnNodeError(cur, err)

\* `return err` inside installServer / installAgent: the deferred c.Close()
\* runs, then Apply sees the error.
InstallFail(entry, err) ==
  /\ log' = Append(log, entry)
  /\ sessions' = sessions \ {Session(cur, "provision")}
  /\ nodeState' = [nodeState EXCEPT ![cur] = "failed"]
  /\ ApplyOnNodeError(cur, err)

\* `return nil` at the end of installServer / installAgent.
InstallDone ==
  /\ sessions' = sessions \ {Session(cur, "provision")}
  /\ nodeState' = [nodeState EXCEPT ![cur] = "done"]
  /\ ApplyOnNodeDone(cur)

\* One upload of the node sequence (Upload, UploadBytes): on success the node
\* holds newRemote and the sequence goes on at next; the client's error is
\* returned as it is.
RunStep(op, next, newRemote) ==
  /\ \E ok \in BOOLEAN :
       IF ok
         THEN /\ log' = Append(log, Entry(cur, "provision", op, TRUE))
              /\ remote' = [remote EXCEPT ![cur] = newRemote]
              /\ pc' = next
              /\ UNCHANGED <<cur, sessions, nodeState, applyErr>>
         ELSE /\ InstallFail(Entry(cur, "provision", op, FALSE), Err(cur, op))
              /\ remote' = remote
  /\ UNCHANGED <<warnings, fixedInApply, kcVars, amVars>>

\* `if err := runCmd(c, cmd); err != nil { return err }`: one remote command
\* of the node sequence.
CmdStep(op, cmd, next, newRemote) ==
  /\ \E r \in ClientRun :
       IF runCmd(cur, op, cmd, r) = NoErr
         THEN /\ log' = Append(log, Entry(cur, "provision", op, TRUE))
              /\ remote' = [remote EXCEPT ![cur] = newRemote]
              /\ pc' = next
              /\ UNCHANGED <<cur, sessions, nodeState, applyErr>>
         ELSE /\ InstallFail(FailedRun(cur, "provision", op, r), runCmd(cur, op, cmd, r))
              /\ remote' = remote
  /\ UNCHANGED <<warnings, fixedInApply, kcVars, amVars>>

\* installServer 81-89 / installAgent 153-161: sshclient.New.
Connect ==
  /\ pc = "connect"
  /\ \E ok \in BOOLEAN :
       IF ok
         THEN /\ log' = Append(log, Entry(cur, "provision", "connect", TRUE))
              /\ sessions' = sessions \cup {Session(cur, "provision")}
              /\ nodeState' = [nodeState EXCEPT ![cur] = "running"]
              /\ pc' = "mkdirBin"
              /\ UNCHANGED <<cur, applyErr>>
         ELSE /\ log' = Append(log, Entry(cur, "provision", "connect", FALSE))
              /\ sessions' = sessions
              /\ nodeState' = [nodeState EXCEPT ![cur] = "failed"]
              /\ ApplyOnNodeError(cur, Err(cur, "connect"))
  /\ UNCHANGED <<remote, warnings, fixedInApply, kcVars, amVars>>

BinDir == <<"/usr/local/bin">>

ImagesDir == JoinPath(<<cfg.Cluster.DataDir, "agent", "images">>)

EtcDir == <<"/etc/rancher/k3s">>

\* prepareNode, 214-234.
MkdirBin ==
  /\ pc = "mkdirBin"
  /\ CmdStep("mkdirBin", Cmd("mkdir -p /usr/local/bin"), "mkdirImages", [remote[cur] EXCEPT !.dirs = @ \cup {BinDir}])

MkdirImages ==
  /\ pc = "mkdirImages"
  /\ CmdStep("mkdirImages", CmdOn("mkdir -p %s", ImagesDir), "mkdirEtc", [remote[cur] EXCEPT !.dirs = @ \cup {ImagesDir}])

MkdirEtc ==
  /\ pc = "mkdirEtc"
  /\ CmdStep("mkdirEtc", Cmd("mkdir -p /etc/rancher/k3s"), "resolveBinary", [remote[cur] EXCEPT !.dirs = @ \cup {EtcDir}])

K3sPath == <<"/usr/local/bin/k3s">>

TarballPath == JoinPath(<<cfg.Cluster.DataDir, "agent", "images",
                          "k3s-airgap-images-amd64.tar.gz">>)

RegistriesPath == <<"/etc/rancher/k3s/registries.yaml">>

UninstallPath == <<"/usr/local/bin/k3s-uninstall.sh">>

UnitPath(p) == IF IsServer(p) THEN <<"/etc/systemd/system/k3s.service">>
               ELSE <<"/etc/systemd/system/k3s-agent.service">>

\* uploadAssets, 276-283: where the sequence goes after the image bundle.
AfterTarball == IF cfg.Cluster.Registries # "" THEN "uploadRegistries" ELSE "uploadUninstall"

\* uploadAssets, 257-274: where the sequence goes after the main binary.
AfterBinary == IF cfg.Assets.K3sAirgapTarball # NoPath THEN "resolveTarball" ELSE AfterTarball

ResolveBinary_ReuseDownload ==
  /\ pc = "resolveBinary"
  /\ \E r \in (IF isURL(cfg.Assets.K3sBinary)
                   /\ TempPath(getFilenameFromURL(cfg.Assets.K3sBinary))
                        \in Range(downloadedFiles)
                 THEN { Resolved(TRUE, TempPath(getFilenameFromURL(cfg.Assets.K3sBinary)),
                                 FALSE, tempDir, downloadedFiles) }
                 ELSE ResolveAsset(cfg.Assets.K3sBinary, localFiles, tempDir,
                                   downloadedFiles)) :
       /\ tempDir' = r.tempDir
       /\ downloadedFiles' = r.downloadedFiles
       /\ IF r.ok
            THEN /\ log' = Append(log, Entry(cur, "provision", "resolveBinary", TRUE))
                 /\ pc' = "uploadBinary"
                 /\ UNCHANGED <<cur, sessions, nodeState, applyErr>>
            ELSE InstallFail(Entry(cur, "provision", "resolveBinary", FALSE),
                             Err(cur, "resolveBinary"))
  /\ UNCHANGED <<remote, warnings, fixedInApply, kcVars>>

\* uploadAssets, 239-243: a main binary that does not resolve is fatal.
ResolveBinary ==
  /\ pc = "resolveBinary"
  /\ \E r \in ResolveAsset(cfg.Assets.K3sBinary, localFiles, tempDir, downloadedFiles) :
       /\ tempDir' = r.tempDir
       /\ downloadedFiles' = r.downloadedFiles
       /\ IF r.ok
            THEN /\ log' = Append(log, Entry(cur, "provision", "resolveBinary", TRUE))
                 /\ pc' = "uploadBinary"
                 /\ UNCHANGED <<cur, sessions, nodeState, applyErr>>
            ELSE InstallFail(Entry(cur, "provision", "resolveBinary", FALSE),
                             Err(cur, "resolveBinary"))
  /\ UNCHANGED <<remote, warnings, fixedInApply, kcVars>>

\* uploadAssets, 245-255.
UploadBinary ==
  /\ pc = "uploadBinary"
  /\ RunStep("uploadBinary", "chmodBinary", [remote[cur] EXCEPT !.files = @ \cup {K3sPath}])

ChmodBinary ==
  /\ pc = "chmodBinary"
  /\ CmdStep("chmodBinary", Cmd("chmod +x /usr/local/bin/k3s"), AfterBinary, [remote[cur] EXCEPT !.exec = @ \cup {K3sPath}])

TarballUnresolved_Fatal ==
  /\ InstallFail(Entry(cur, "provision", "resolveTarball", FALSE), Err(cur, "resolveTarball"))
  /\ warnings' = warnings

\* What uploadAssets does when the image bundle does not resolve (260-262).
TarballUnresolved ==
  /\ log' = Append(log, Entry(cur, "provision", "resolveTarball", FALSE))
  /\ warnings' = Append(warnings, Err(cur, "skipping images archive"))
  /\ pc' = AfterTarball
  /\ UNCHANGED <<cur, sessions, nodeState, applyErr>>

\* uploadAssets, 258-263.
ResolveTarball ==
  /\ pc = "resolveTarball"
  /\ \E r \in ResolveAsset(cfg.Assets.K3sAirgapTarball, localFiles, tempDir, downloadedFiles) :
       /\ tempDir' = r.tempDir
       /\ downloadedFiles' = r.downloadedFiles
       /\ IF r.ok
            THEN /\ log' = Append(log, Entry(cur, "provision", "resolveTarball", TRUE))
                 /\ pc' = "uploadTarball"
                 /\ UNCHANGED <<cur, sessions, nodeState, applyErr, warnings>>
            ELSE TarballUnresolved
  /\ UNCHANGED <<remote, fixedInApply, kcVars>>

\* uploadAssets, 264-270.
UploadTarball ==
  /\ pc = "uploadTarball"
  /\ RunStep("uploadTarball", AfterTarball, [remote[cur] EXCEPT !.files = @ \cup {TarballPath}])

\* uploadAssets, 276-281.
UploadRegistries ==
  /\ pc = "uploadRegistries"
  /\ RunStep("uploadRegistries", "uploadUninstall",
             [remote[cur] EXCEPT !.files = @ \cup {RegistriesPath}])

\* installServer 106-118 / installAgent 173-185.
UploadUninstall ==
  /\ pc = "uploadUninstall"
  /\ RunStep("uploadUninstall", "chmodUninstall",
             [remote[cur] EXCEPT
                !.files = @ \cup {UninstallPath},
                !.uninstall = IF IsServer(cur) THEN uninstallScriptContent(cfg.Cluster)
                              ELSE agentUninstallScriptContent(cfg.Cluster)])

ChmodUninstall ==
  /\ pc = "chmodUninstall"
  /\ CmdStep("chmodUninstall", Cmd("chmod +x /usr/local/bin/k3s-uninstall.sh"), "uploadUnit", [remote[cur] EXCEPT !.exec = @ \cup {UninstallPath}])

UploadUnit_JoinSelfIfStarted ==
  /\ pc = "uploadUnit"
  /\ RunStep("uploadUnit", "daemonReload",
             [remote[cur] EXCEPT
                !.files = @ \cup {UnitPath(cur)},
                !.unit = LET target == IF remote[cur].started THEN NodeAt(cur).IP
                                       ELSE Primary.IP IN
                         IF IsServer(cur)
                           THEN serverServiceContent(cfg.Cluster, NodeAt(cur), target,
                                                     isPrimaryAt(cur))
                           ELSE agentServiceContent(cfg.Cluster, NodeAt(cur), target)])

\* installServer 120-124 / installAgent 187-191.
UploadUnit ==
  /\ pc = "uploadUnit"
  /\ RunStep("uploadUnit", "daemonReload",
             [remote[cur] EXCEPT
                !.files = @ \cup {UnitPath(cur)},
                !.unit = IF IsServer(cur)
                           THEN serverServiceContent(cfg.Cluster, NodeAt(cur), Primary.IP,
                                                     isPrimaryAt(cur))
                           ELSE agentServiceContent(cfg.Cluster, NodeAt(cur), Primary.IP)])

\* installServer 126-139 / installAgent 193-206.
DaemonReload ==
  /\ pc = "daemonReload"
  /\ CmdStep("daemonReload", Cmd("systemctl daemon-reload"), "enable", [remote[cur] EXCEPT !.reloaded = TRUE])

EnableUnit ==
  /\ pc = "enable"
  /\ CmdStep("enable", Cmd(IF IsServer(cur) THEN "systemctl enable k3s"
                            ELSE "systemctl enable k3s-agent"), "restart", [remote[cur] EXCEPT !.enabled = TRUE])

RestartUnit ==
  /\ pc = "restart"
  /\ CmdStep("restart", Cmd(IF IsServer(cur) THEN "systemctl restart k3s"
                             ELSE "systemctl restart k3s-agent"), "settle", [remote[cur] EXCEPT !.started = TRUE])

Settle_LinkOnEveryNode ==
  /\ pc = "settle"
  /\ pc' = "kubectlLink"
  /\ UNCHANGED <<cur, sessions, nodeState, applyErr>>
  /\ UNCHANGED <<remote, log, warnings, fixedInApply, kcVars, amVars>>

\* installServer 141-142 / installAgent 208-211: time.Sleep; an agent is done.
Settle ==
  /\ pc = "settle"
  /\ IF IsServer(cur)
       THEN /\ pc' = "kubectlLink"
            /\ UNCHANGED <<cur, sessions, nodeState, applyErr>>
       ELSE InstallDone
  /\ UNCHANGED <<remote, log, warnings, fixedInApply, kcVars, amVars>>

\* installServer 144-149: servers only.
KubectlLink ==
  /\ pc = "kubectlLink"
  /\ \E r \in ClientRun :
       LET err == runCmd(cur, "kubectlLink",
                         Cmd("cp /usr/local/bin/k3s /usr/local/bin/kubectl -f"), r) IN
         IF err = NoErr
           THEN /\ log' = Append(log, Entry(cur, "provision", "kubectlLink", TRUE))
                /\ remote' = [remote EXCEPT ![cur].kubectl = TRUE]
                /\ InstallDone
           ELSE /\ InstallFail(FailedRun(cur, "provision", "kubectlLink", r), err)
                /\ remote' = remote
  /\ UNCHANGED <<warnings, fixedInApply, kcVars, amVars>>

\* ---------------------------------------------- Installer.downloadKubeconfig
DataDirKubeconfig == JoinPath(<<cfg.Cluster.DataDir, "server", "cred", "k3s.yaml">>)

DefaultKubeconfig == <<"/etc/rancher/k3s/k3s.yaml">>

KubeconfigReturns_Fatal(err) ==
  /\ kcErr' = err
  /\ warnings' = warnings
  /\ applyErr' = IF err = NoErr THEN applyErr ELSE err
  /\ pc' = IF err = NoErr THEN "infoConnect" ELSE "applyReturned"

\* Apply, lines 72-75: the error is logged as a warning; showClusterInfo is next.
KubeconfigReturns(err) ==
  /\ kcErr' = err
  /\ applyErr' = applyErr
  /\ warnings' = IF err = NoErr THEN warnings
                 ELSE Append(warnings, Err(1, "failed to download kubeconfig"))
  /\ pc' = "infoConnect"

\* downloadKubeconfig, 427-435.
KcConnect ==
  /\ pc = "kcConnect"
  /\ \E ok \in BOOLEAN :
       IF ok
         THEN /\ log' = Append(log, Entry(1, "kubeconfig", "connect", TRUE))
              /\ sessions' = sessions \cup {Session(1, "kubeconfig")}
              /\ pc' = "kcDownload"
              /\ UNCHANGED <<kcErr, warnings, applyErr>>
         ELSE /\ log' = Append(log, Entry(1, "kubeconfig", "connect", FALSE))
              /\ sessions' = sessions
              /\ KubeconfigReturns(Err(1, "connect"))
  /\ UNCHANGED <<cur, remote, nodeState, kubeconfigLocal, kcContent>>
  /\ UNCHANGED <<fixedInApply, amVars>>

KcDownload_NoFallback ==
  /\ pc = "kcDownload"
  /\ \/ \E d \in RemoteDocs :
          /\ log' = Append(log, Entry(1, "kubeconfig", "downloadDataDir", TRUE))
          /\ kcContent' = d
          /\ pc' = "kcPatch"
          /\ UNCHANGED <<sessions, kcErr, warnings, applyErr>>
     \/ /\ log' = Append(log, Entry(1, "kubeconfig", "downloadDataDir", FALSE))
        /\ kcContent' = kcContent
        /\ sessions' = sessions \ {Session(1, "kubeconfig")}
        /\ KubeconfigReturns(Err(1, "failed to download kubeconfig"))
  /\ UNCHANGED <<cur, remote, nodeState, kubeconfigLocal>>
  /\ UNCHANGED <<fixedInApply, amVars>>

\* downloadKubeconfig, 437-443: the data-dir path first.
KcDownload ==
  /\ pc = "kcDownload"
  /\ \/ \E d \in RemoteDocs :
          /\ log' = Append(log, Entry(1, "kubeconfig", "downloadDataDir", TRUE))
          /\ kcContent' = d
          /\ pc' = "kcPatch"
     \/ /\ log' = Append(log, Entry(1, "kubeconfig", "downloadDataDir", FALSE))
        /\ kcContent' = kcContent
        /\ pc' = "kcFallback"
  /\ UNCHANGED <<cur, sessions, remote, nodeState, applyErr, warnings, kubeconfigLocal, kcErr>>
  /\ UNCHANGED <<fixedInApply, amVars>>

\* downloadKubeconfig, 444-450: the default path, only after the first failed.
KcFallback ==
  /\ pc = "kcFallback"
  /\ \/ \E d \in RemoteDocs :
          /\ log' = Append(log, Entry(1, "kubeconfig", "downloadDefault", TRUE))
          /\ kcContent' = d
          /\ pc' = "kcPatch"
          /\ UNCHANGED <<sessions, kcErr, warnings, applyErr>>
     \/ /\ log' = Append(log, Entry(1, "kubeconfig", "downloadDefault", FALSE))
        /\ kcContent' = kcContent
        /\ sessions' = sessions \ {Session(1, "kubeconfig")}
        /\ KubeconfigReturns(Err(1, "failed to download kubeconfig"))
  /\ UNCHANGED <<cur, remote, nodeState, kubeconfigLocal>>
  /\ UNCHANGED <<fixedInApply, amVars>>

KcPatch_WriteOnError ==
  /\ pc = "kcPatch"
  /\ LET r == replaceKubeconfigServer(kcContent, Primary.IP) IN
       IF r.err
         THEN /\ sessions' = sessions \ {Session(1, "kubeconfig")}
              /\ kcContent' = kcContent
              /\ kubeconfigLocal' = [exists |-> TRUE, content |-> kcContent]
              /\ KubeconfigReturns(Err(1, "failed to modify kubeconfig"))
         ELSE /\ kcContent' = r.doc
              /\ pc' = "kcWrite"
              /\ UNCHANGED <<sessions, kcErr, warnings, applyErr, kubeconfigLocal>>
  /\ UNCHANGED <<cur, remote, nodeState, log>>
  /\ UNCHANGED <<fixedInApply, amVars>>

\* downloadKubeconfig, 452-459.
KcPatch ==
  /\ pc = "kcPatch"
  /\ LET r == replaceKubeconfigServer(kcContent, Primary.IP) IN
       IF r.err
         THEN /\ sessions' = sessions \ {Session(1, "kubeconfig")}
              /\ kcContent' = kcContent
              /\ KubeconfigReturns(Err(1, "failed to modify kubeconfig"))
         ELSE /\ kcContent' = r.doc
              /\ pc' = "kcWrite"
              /\ UNCHANGED <<sessions, kcErr, warnings, applyErr>>
  /\ UNCHANGED <<cur, remote, nodeState, kubeconfigLocal, log>>
  /\ UNCHANGED <<fixedInApply, amVars>>

\* downloadKubeconfig, 461-470: os.WriteFile("kubeconfig", modified, 0600).
KcWrite ==
  /\ pc = "kcWrite"
  /\ \E ok \in BOOLEAN :
       IF ok
         THEN /\ kubeconfigLocal' = [exists |-> TRUE, content |-> kcContent]
              /\ KubeconfigReturns(NoErr)
         ELSE /\ kubeconfigLocal' = kubeconfigLocal
              /\ KubeconfigReturns(Err(1, "failed to write kubeconfig"))
  /\ sessions' = sessions \ {Session(1, "kubeconfig")}
  /\ UNCHANGED <<cur, remote, nodeState, kcContent, log>>
  /\ UNCHANGED <<fixedInApply, amVars>>

\* ------------------------------------------------- Installer.showClusterInfo
\* Apply, lines 75-77: after showClusterInfo, printSuccessSummary, return nil.
ApplyReturnsNil ==
  /\ applyErr' = NoErr
  /\ pc' = "applyReturned"

\* showClusterInfo, 365-374.
InfoConnect ==
  /\ pc = "infoConnect"
  /\ \E ok \in BOOLEAN :
       IF ok
         THEN /\ log' = Append(log, Entry(1, "info", "connect", TRUE))
              /\ sessions' = sessions \cup {Session(1, "info")}
              /\ pc' = "infoGetNodes"
              /\ applyErr' = applyErr
         ELSE /\ log' = Append(log, Entry(1, "info", "connect", FALSE))
              /\ sessions' = sessions
              /\ ApplyReturnsNil
  /\ UNCHANGED <<cur, remote, nodeState, warnings>>
  /\ UNCHANGED <<fixedInApply, amVars, kcVars>>

\* showClusterInfo, 375-382: runCmd, then c.Run whose error is dropped.
InfoGetNodes ==
  /\ pc = "infoGetNodes"
  /\ \E ok \in BOOLEAN :
       IF ok
         THEN log' = Append(Append(log, Entry(1, "info", "kubectl get nodes", TRUE)),
                            Entry(1, "info", "kubectl get nodes", TRUE))
         ELSE log' = Append(log, Entry(1, "info", "kubectl get nodes", FALSE))
  /\ sessions' = sessions \ {Session(1, "info")}
  /\ ApplyReturnsNil
  /\ UNCHANGED <<cur, remote, nodeState, warnings>>
  /\ UNCHANGED <<fixedInApply, amVars, kcVars>>

\* ------------------------------------------------------ main, after Apply
Cleanup_KeepDir(dir, ok) == IF ok THEN [exists |-> TRUE, files |-> {}] ELSE dir

\* AssetManager.Cleanup, 152-162: os.RemoveAll on the directory.
Cleanup(dir, ok) == IF ok THEN [exists |-> FALSE, files |-> {}] ELSE dir

RemoveAllOutcomes_FailIfMissing(dir) == IF dir.exists THEN BOOLEAN ELSE {FALSE}

\* os.RemoveAll(am.tempDir) == nil: removing a path that does not exist
\* succeeds; removing an existing tree may fail.
RemoveAllOutcomes(dir) == IF dir.exists THEN BOOLEAN ELSE {TRUE}

\* main.go 136-139: slog.Error and os.Exit(1); os.Exit runs no deferred call.
MainApplyFailed ==
  /\ pc = "applyReturned"
  /\ applyErr # NoErr
  /\ pc' = "exited"
  /\ exitCode' = 1
  /\ UNCHANGED <<cfg, localFiles, kubeconfigLocal, cur, loadErr, tempDir, downloadedFiles,
                 sessions, remote, nodeState, log, warnings, applyErr, kcErr, kcContent,
                 cleanups, validateResult, run, arg, ret, calls, initYaml>>

\* main.go 140 and 131-135: "apply completed", main returns, the deferred
\* Cleanup runs; a failed Cleanup is a warning.
MainApplyCompleted ==
  /\ pc = "applyReturned"
  /\ applyErr = NoErr
  /\ \E ok \in BOOLEAN :
       /\ tempDir' = Cleanup(tempDir, ok)
       /\ warnings' = IF ok THEN warnings ELSE Append(warnings, Err(0, "cleanup failed"))
  /\ cleanups' = cleanups + 1
  /\ pc' = "exited"
  /\ exitCode' = 0
  /\ UNCHANGED <<cfg, localFiles, kubeconfigLocal, cur, loadErr, downloadedFiles,
                 sessions, remote, nodeState, log, applyErr, kcErr, kcContent,
                 validateResult, run, arg, ret, calls, initYaml>>

Next ==
  \/ MainLoad
  \/ MainNewInstaller
  \/ ApplyStart
  \/ Connect
  \/ MkdirBin
  \/ MkdirImages
  \/ MkdirEtc
  \/ ResolveBinary
  \/ UploadBinary
  \/ ChmodBinary
  \/ ResolveTarball
  \/ UploadTarball
  \/ UploadRegistries
  \/ UploadUninstall
  \/ ChmodUninstall
  \/ UploadUnit
  \/ DaemonReload
  \/ EnableUnit
  \/ RestartUnit
  \/ Settle
  \/ KubectlLink
  \/ KcConnect
  \/ KcDownload
  \/ KcFallback
  \/ KcPatch
  \/ KcWrite
  \/ InfoConnect
  \/ InfoGetNodes
  \/ MainApplyFailed
  \/ MainApplyCompleted

Spec == Init /\ [][Next]_vars

\* --------------------------------------------- `k3air apply`, invoked again
\* The documents of the repeated runs: valid addresses, default ranges.
RerunConfigs ==
  { [Cluster |-> FullCluster,
     Assets |-> [K3sBinary |-> NoPath, K3sAirgapTarball |-> NoPath],
     Servers |-> [k \in 1..n |-> ServerNode(k, GoodIP(k))],
     Agents |-> [k \in 1..m |-> AgentNode(k, GoodIP(100 + k))]] :
      <<n, m>> \in (1..MaxServers) \X (0..MaxAgents) }

InitRerun ==
  /\ cfg \in RerunConfigs
  /\ localFiles \in {{DefaultK3sBinary}, {DefaultK3sBinary, DefaultTarball}}
  /\ kubeconfigLocal = [exists |-> FALSE, content |-> NoDoc]
  /\ pc = "main"
  /\ cur = 0
  /\ loadErr = NoError
  /\ tempDir = [exists |-> FALSE, files |-> {}]
  /\ downloadedFiles = << >>
  /\ sessions = {}
  /\ remote = [p \in 1..(Len(cfg.Servers) + Len(cfg.Agents)) |-> FreshNode]
  /\ nodeState = [p \in 1..(Len(cfg.Servers) + Len(cfg.Agents)) |-> "pending"]
  /\ log = << >>
  /\ warnings = << >>
  /\ applyErr = NoErr
  /\ kcErr = NoErr
  /\ kcContent = NoDoc
  /\ exitCode = -1
  /\ cleanups = 0
  /\ validateResult = NoError
  /\ run = 1
  /\ arg = NoCall
  /\ ret = NoReturn
  /\ calls = 0
  /\ initYaml = ConfigFile(cfg)

\* The operator runs `k3air apply` again on the same document: a new process.
\* main and Apply read no record of an earlier run; what persists is outside
\* the process: the nodes, the local files, the local credential file.
Rerun ==
  /\ pc = "exited"
  /\ run < MaxRuns
  /\ run' = run + 1
  /\ pc' = "main"
  /\ cur' = 0
  /\ loadErr' = NoError
  /\ tempDir' = [exists |-> FALSE, files |-> {}]
  /\ downloadedFiles' = << >>
  /\ sessions' = {}
  /\ nodeState' = [p \in 1..NumNodes |-> "pending"]
  /\ log' = << >>
  /\ warnings' = << >>
  /\ applyErr' = NoErr
  /\ kcErr' = NoErr
  /\ kcContent' = NoDoc
  /\ exitCode' = -1
  /\ cleanups' = 0
  /\ UNCHANGED <<cfg, localFiles, kubeconfigLocal, remote, validateResult, arg, ret, calls, initYaml>>

NextRerun == Next \/ Rerun

SpecRerun == InitRerun /\ [][NextRerun]_vars

\* --------------------------------------------- AssetManager, called directly
\* Local files that may exist beside the configuration.
AssetFiles == { DefaultK3sBinary, LocalPath(<<"assets", "k3s">>) }

\* References given to ResolveAsset: the default names bare and with "./",
\* other local paths, the empty string, a scheme isURL does not know, and
\* URLs: two with the same final segment, one ending in "/", one in "..".
AssetRefs ==
  { DefaultK3sBinary, LocalPath(<<".", "k3s">>), DefaultTarball,
    LocalPath(<<".", "k3s-airgap-images-amd64.tar.gz">>) }
    \cup { LocalPath(<<"assets", "k3s">>), LocalPath(<<"missing.bin">>), NoPath,
           Url("ftp", <<"dl.example", "k3s">>) }
    \cup { BinaryUrl, TarballUrl, Url("https", <<"mirror.example", "v1", "k3s">>),
           Url("https", <<"dl.example", "">>), Url("http", <<"dl.example", "..">>) }

\* NewAssetManager has returned; the directory may have been removed since.
InitAssets ==
  /\ cfg = [Cluster |-> FullCluster,
            Assets |-> [K3sBinary |-> DefaultK3sBinary, K3sAirgapTarball |-> DefaultTarball],
            Servers |-> << >>, Agents |-> << >>]
  /\ localFiles \in SUBSET AssetFiles
  /\ kubeconfigLocal = [exists |-> FALSE, content |-> NoDoc]
  /\ pc = "assets"
  /\ cur = 0
  /\ loadErr = NoError
  /\ tempDir \in {[exists |-> TRUE, files |-> {}], [exists |-> FALSE, files |-> {}]}
  /\ downloadedFiles = << >>
  /\ sessions = {}
  /\ remote = << >>
  /\ nodeState = << >>
  /\ log = << >>
  /\ warnings = << >>
  /\ applyErr = NoErr
  /\ kcErr = NoErr
  /\ kcContent = NoDoc
  /\ exitCode = -1
  /\ cleanups = 0
  /\ validateResult = NoError
  /\ run = 1
  /\ arg = NoCall
  /\ ret = NoReturn
  /\ calls = 0
  /\ initYaml = NoFile

notInAssets ==
  <<cfg, localFiles, kubeconfigLocal, pc, cur, loadErr, sessions, remote, nodeState, log,
    warnings, applyErr, kcErr, kcContent, exitCode, validateResult, run, initYaml>>

\* path, err := am.ResolveAsset(source, description)
ResolveAssetCall ==
  /\ pc = "assets"
  /\ calls < MaxCalls
  /\ \E source \in AssetRefs :
       \E r \in ResolveAsset(source, localFiles, tempDir, downloadedFiles) :
         /\ tempDir' = r.tempDir
         /\ downloadedFiles' = r.downloadedFiles
         /\ arg' = [op |-> "ResolveAsset", source |-> source,
                    prev |-> [op |-> arg.op, ok |-> ret.ok]]
         /\ ret' = [ok |-> r.ok, path |-> r.path, hint |-> r.hint, get |-> r.get]
  /\ calls' = calls + 1
  /\ UNCHANGED <<notInAssets, cleanups>>

\* err := am.Cleanup()
CleanupCall ==
  /\ pc = "assets"
  /\ calls < MaxCalls
  /\ \E ok \in RemoveAllOutcomes(tempDir) :
       /\ tempDir' = Cleanup(tempDir, ok)
       /\ ret' = [ok |-> ok, path |-> NoPath, hint |-> FALSE, get |-> FALSE]
  /\ arg' = [op |-> "Cleanup", source |-> NoPath, prev |-> [op |-> arg.op, ok |-> ret.ok]]
  /\ cleanups' = cleanups + 1
  /\ calls' = calls + 1
  /\ UNCHANGED <<notInAssets, downloadedFiles>>

NextAssets == ResolveAssetCall \/ CleanupCall

SpecAssets == InitAssets /\ [][NextAssets]_vars

\* ---------------------------------- replaceKubeconfigServer, called directly
\* Server URLs: loopback host, another host, the loopback text twice, and the
\* loopback text as the beginning of a longer host ("127.0.0.10").
PatchUrls ==
  { LoopbackUrl, OtherUrl,
    <<Arg("https://"), Loopback, Arg(":6443/"), Loopback>>,
    <<Arg("https://"), Loopback, Arg("0:6443")>> }

PatchEntries ==
  { ClusterEntry(u) : u \in PatchUrls } \cup { [hasServer |-> FALSE, server |-> << >>] }

PatchDocs ==
  { [yaml |-> FALSE, hasClusters |-> FALSE, clusters |-> << >>],
    [yaml |-> TRUE, hasClusters |-> FALSE, clusters |-> << >>] }
    \cup UNION { { Doc(es) : es \in [1..n -> PatchEntries] } : n \in 0..MaxClusters }

\* serverIP: an address, the loopback address itself, the empty string.
PatchAddresses == { GoodIP(1), <<127, 0, 0, 1>>, << >> }

InitPatch ==
  /\ cfg = [Cluster |-> FullCluster,
            Assets |-> [K3sBinary |-> DefaultK3sBinary, K3sAirgapTarball |-> DefaultTarball],
            Servers |-> << >>, Agents |-> << >>]
  /\ localFiles = {}
  /\ kubeconfigLocal = [exists |-> FALSE, content |-> NoDoc]
  /\ pc = "patch"
  /\ cur = 0
  /\ loadErr = NoError
  /\ tempDir = [exists |-> FALSE, files |-> {}]
  /\ downloadedFiles = << >>
  /\ sessions = {}
  /\ remote = << >>
  /\ nodeState = << >>
  /\ log = << >>
  /\ warnings = << >>
  /\ applyErr = NoErr
  /\ kcErr = NoErr
  /\ kcContent = NoDoc
  /\ exitCode = -1
  /\ cleanups = 0
  /\ validateResult = NoError
  /\ run = 1
  /\ arg \in [op : {"replaceKubeconfigServer"}, data : PatchDocs, serverIP : PatchAddresses]
  /\ ret = Patched(NoDoc, FALSE, FALSE)
  /\ calls = 0
  /\ initYaml = NoFile

\* modified, replaced, err := replaceKubeconfigServer(data, serverIP)
PatchCall ==
  /\ pc = "patch"
  /\ ret' = replaceKubeconfigServer(arg.data, arg.serverIP)
  /\ pc' = "patched"
  /\ calls' = calls + 1
  /\ UNCHANGED <<cfg, localFiles, kubeconfigLocal, cur, loadErr, tempDir, downloadedFiles,
                 sessions, remote, nodeState, log, warnings, applyErr, kcErr, kcContent,
                 exitCode, cleanups, validateResult, run, arg, initYaml>>

NextPatch == PatchCall

SpecPatch == InitPatch /\ [][NextPatch]_vars

\* ------------------------------------------ unit generation, called directly
\* Every combination of set and unset cluster fields, with empty elements in
\* the lists.
UnitClusters ==
  [FlannelBackend : {"", "host-gw"}, ClusterCidr : {NoCidr, DefaultClusterCidr},
   ServiceCidr : {NoCidr, DefaultServiceCidr}, Token : {"", "k3air-token"},
   TLSSAN : {<< >>, <<"san1", "">>}, Disable : {<< >>, <<"", "traefik">>},
   DataDir : {"", "/data/k3s"}, EmbeddedRegistry : BOOLEAN, Registries : {""}]

UnitNodes ==
  { Node(name, GoodIP(2), labels) :
      <<name, labels>> \in {"", "k3s-node"} \X {<< >>, <<"role=cp", "">>, <<"a=b", "c=d">>} }

InitUnit ==
  /\ cfg = [Cluster |-> FullCluster,
            Assets |-> [K3sBinary |-> DefaultK3sBinary, K3sAirgapTarball |-> DefaultTarball],
            Servers |-> << >>, Agents |-> << >>]
  /\ localFiles = {}
  /\ kubeconfigLocal = [exists |-> FALSE, content |-> NoDoc]
  /\ pc = "unit"
  /\ cur = 0
  /\ loadErr = NoError
  /\ tempDir = [exists |-> FALSE, files |-> {}]
  /\ downloadedFiles = << >>
  /\ sessions = {}
  /\ remote = << >>
  /\ nodeState = << >>
  /\ log = << >>
  /\ warnings = << >>
  /\ applyErr = NoErr
  /\ kcErr = NoErr
  /\ kcContent = NoDoc
  /\ exitCode = -1
  /\ cleanups = 0
  /\ validateResult = NoError
  /\ run = 1
  /\ arg \in [role : {"primary", "secondary", "worker"}, cluster : UnitClusters,
               node : UnitNodes, primaryIP : {GoodIP(1)}]
  /\ ret = NoUnit
  /\ calls = 0
  /\ initYaml = NoFile

notInUnit ==
  <<cfg, localFiles, kubeconfigLocal, cur, loadErr, tempDir, downloadedFiles, sessions,
    remote, nodeState, log, warnings, applyErr, kcErr, kcContent, exitCode, cleanups,
    validateResult, run, arg, initYaml>>

\* i.serverServiceContent(node, primaryIP, isPrimary) with i.cfg.Cluster = cluster
ServerUnitCall ==
  /\ pc = "unit"
  /\ arg.role \in {"primary", "secondary"}
  /\ ret' = serverServiceContent(arg.cluster, arg.node, arg.primaryIP, arg.role = "primary")
  /\ pc' = "unitDone"
  /\ calls' = calls + 1
  /\ UNCHANGED notInUnit

\* i.agentServiceContent(node, primaryIP) with i.cfg.Cluster = cluster
AgentUnitCall ==
  /\ pc = "unit"
  /\ arg.role = "worker"
  /\ ret' = agentServiceContent(arg.cluster, arg.node, arg.primaryIP)
  /\ pc' = "unitDone"
  /\ calls' = calls + 1
  /\ UNCHANGED notInUnit

NextUnit == ServerUnitCall \/ AgentUnitCall

SpecUnit == InitUnit /\ [][NextUnit]_vars

\* ------------------------------------------- Config.Validate, called directly
\* Every CIDR string over AddrBits-bit addresses of two families, the strings
\* net.ParseCIDR refuses (bits = AddrBits + 1) and the empty string.
CidrStrings ==
  { Cidr(f, a, b) : <<f, a, b>> \in {4, 6} \X (0..(Pow2(AddrBits) - 1)) \X (0..(AddrBits + 1)) }
    \cup {NoCidr}

AddressForms(k) == { GoodIP(k), << >>, <<10, 0, 0, 256>>, <<10, 0, 0>> }

AnyServerLists ==
  UNION { { [k \in 1..n |-> ServerNode(k, ips[k])] :
              ips \in [1..n -> UNION {AddressForms(k) : k \in 1..n}] } :
          n \in 0..MaxServers }

AnyAgentLists ==
  UNION { { [k \in 1..n |-> AgentNode(k, ips[k])] :
              ips \in [1..n -> UNION {AddressForms(100 + k) : k \in 1..n}] } :
          n \in 0..MaxAgents }

ConfigOf(clusterCidr, serviceCidr, servers, agents) ==
  [Cluster |-> [FullCluster EXCEPT !.ClusterCidr = clusterCidr, !.ServiceCidr = serviceCidr],
   Assets |-> [K3sBinary |-> DefaultK3sBinary, K3sAirgapTarball |-> DefaultTarball],
   Servers |-> servers, Agents |-> agents]

\* The receiver of the direct call is one of: every pair of range strings with
\* one valid server; every server list with an agent list of at most one bad
\* address (and the reverse), under valid and under identical ranges.
ValidateInputs ==
  \/ \E a \in CidrStrings, b \in CidrStrings :
       cfg = ConfigOf(a, b, <<ServerNode(1, GoodIP(1))>>, << >>)
  \/ \E sc \in {DefaultServiceCidr, DefaultClusterCidr} :
       \/ \E ss \in AnyServerLists, ags \in AgentLists :
            cfg = ConfigOf(DefaultClusterCidr, sc, ss, ags)
       \/ \E ss \in ServerLists, ags \in AnyAgentLists :
            cfg = ConfigOf(DefaultClusterCidr, sc, ss, ags)

InitValidate ==
  /\ ValidateInputs
  /\ localFiles = {}
  /\ kubeconfigLocal = [exists |-> FALSE, content |-> NoDoc]
  /\ pc = "validate"
  /\ cur = 0
  /\ loadErr = NoError
  /\ tempDir = [exists |-> FALSE, files |-> {}]
  /\ downloadedFiles = << >>
  /\ sessions = {}
  /\ remote = [p \in 1..(Len(cfg.Servers) + Len(cfg.Agents)) |-> FreshNode]
  /\ nodeState = [p \in 1..(Len(cfg.Servers) + Len(cfg.Agents)) |-> "pending"]
  /\ log = << >>
  /\ warnings = << >>
  /\ applyErr = NoErr
  /\ kcErr = NoErr
  /\ kcContent = NoDoc
  /\ exitCode = -1
  /\ cleanups = 0
  /\ validateResult = NoError
  /\ run = 1
  /\ arg = NoCall
  /\ ret = NoReturn
  /\ calls = 0
  /\ initYaml = NoFile

\* err := c.Validate()
ValidateCall ==
  /\ pc = "validate"
  /\ validateResult' = Validate(cfg)
  /\ pc' = "validated"
  /\ UNCHANGED <<cfg, localFiles, kubeconfigLocal, cur, loadErr, tempDir, downloadedFiles,
                 sessions, remote, nodeState, log, warnings, applyErr, kcErr, kcContent,
                 exitCode, cleanups, run, arg, ret, calls, initYaml>>

NextValidate == ValidateCall

SpecValidate == InitValidate /\ [][NextValidate]_vars

\* =================================================================== claims
\* Vocabulary of the claims, stated without the code's helpers.

\* The addresses of the range a well-formed CIDR string denotes.
AddressesOf(s) ==
  { a \in 0..(Pow2(AddrBits) - 1) :
      a \div Pow2(AddrBits - s.bits) = s.addr \div Pow2(AddrBits - s.bits) }

NetworkAddress(s) == CHOOSE x \in AddressesOf(s) : \A y \in AddressesOf(s) : x <= y

SameRange(s1, s2) == s1.fam = s2.fam /\ AddressesOf(s1) = AddressesOf(s2)

ShareAnAddress(s1, s2) == s1.fam = s2.fam /\ AddressesOf(s1) \cap AddressesOf(s2) # {}

WellFormedCidr(s) == s.set /\ s.bits \in 0..AddrBits

IsIPLiteral(ip) == Len(ip) = 4 /\ \A i \in 1..4 : ip[i] >= 0 /\ ip[i] <= 255

BadAddress(node) == node.IP = << >> \/ ~IsIPLiteral(node.IP)

\* The names of the nodes in declared order: servers, then agents.
DeclaredNames ==
  [i \in 1..Len(cfg.Servers) |-> cfg.Servers[i].NodeName]
    \o [i \in 1..Len(cfg.Agents) |-> cfg.Agents[i].NodeName]

Positions == 1..(Len(cfg.Servers) + Len(cfg.Agents))

Untouched(p) == remote[p] = FreshNode /\ \A i \in 1..Len(log) : log[i].pos # p

NoRemoteInteraction ==
  /\ log = << >>
  /\ sessions = {}
  /\ downloadedFiles = << >>
  /\ tempDir.files = {}
  /\ \A p \in Positions : remote[p] = FreshNode

ApplyReturned == pc \in {"applyReturned", "exited"}

\* A fatal step failure of a node's sequence (the optional image bundle's
\* resolution is the one failure that is not fatal).
FatalFailure(e) == e.phase = "provision" /\ ~e.ok /\ e.op # "resolveTarball"

\* The error value e is the one the step op of the node at position p produced.
IsErrorOf(e, p, op) == e.pos = p /\ e.op = op

\* C1: Apply is fail-fast.  A failed step of node k is the last thing Apply
\* does: Apply has returned that node's error, no session is left open, and no
\* node at a later position has been touched at all.
C1_FailFast ==
  \A i \in 1..Len(log) :
    FatalFailure(log[i]) =>
      /\ i = Len(log)
      /\ ApplyReturned
      /\ IsErrorOf(applyErr, log[i].pos, log[i].op)
      /\ sessions = {}
      /\ \A j \in Positions : j > log[i].pos => Untouched(j) /\ nodeState[j] = "pending"

\* s2 of three nodes failed after s1 completed, and the process has exited.
C1_Witness ==
  /\ pc = "exited"
  /\ Len(cfg.Servers) + Len(cfg.Agents) >= 3
  /\ IsErrorOf(applyErr, 2, "restart")
  /\ nodeState[1] = "done"

\* C2: the temporary directory is released by Cleanup exactly once on every
\* exit path of a run in which Apply was called, also when Apply failed.
C2_CleanupOnEveryExit ==
  (pc = "exited" /\ (applyErr # NoErr \/ exitCode = 0)) =>
     cleanups = 1

\* C3: roles come from position only.  The unit a node holds names that node;
\* servers[0]'s unit has --cluster-init and no --server; every other unit has
\* --server https://<servers[0] address>:6443 and no --cluster-init.
C3_RolesFromPosition ==
  \A p \in Positions :
    remote[p].unit # NoUnit =>
      LET args == remote[p].unit.args
          joins == {i \in 1..(Len(args) - 1) : args[i] = Arg("--server")} IN
        /\ \E i \in 1..(Len(args) - 1) :
             args[i] = Arg("--node-name") /\ args[i + 1] = Arg(DeclaredNames[p])
        /\ IF p = 1
             THEN /\ Arg("--cluster-init") \in Range(args)
                  /\ Arg("--server") \notin Range(args)
                  /\ \A i \in 1..Len(args) : args[i].t # "https://%s:6443"
             ELSE /\ Arg("--cluster-init") \notin Range(args)
                  /\ joins # {}
                  /\ \A i \in joins : args[i + 1] = JoinTarget(cfg.Servers[1].IP)
        /\ remote[p].unit.name = IF p <= Len(cfg.Servers) THEN "k3s" ELSE "k3s-agent"

\* A primary, a secondary and a worker all hold their units after a full run.
C3_Witness ==
  /\ pc = "exited"
  /\ exitCode = 0
  /\ Len(cfg.Servers) >= 2
  /\ Len(cfg.Agents) >= 1
  /\ \A p \in Positions : remote[p].unit # NoUnit

\* C4: one node at a time, in declared order.  Every call of a node's sequence
\* is made on the node declared at that position, after every node declared
\* before it is Done; calls never go back to an earlier node; at most one
\* session is open and it is the current node's.
C4_DeclaredOrderNoOverlap ==
  /\ \A i \in 1..Len(log) :
       log[i].phase = "provision" =>
         /\ log[i].node = DeclaredNames[log[i].pos]
         /\ \A q \in 1..(log[i].pos - 1) : nodeState[q] = "done"
         /\ i > 1 => log[i - 1].phase = "provision" /\ log[i - 1].pos <= log[i].pos
  /\ \A p \in Positions :
       nodeState[p] # "pending" => \A q \in 1..(p - 1) : nodeState[q] = "done"
  /\ Cardinality({p \in Positions : nodeState[p] = "running"}) <= 1
  /\ \A s \in sessions : s.phase = "provision" => s.pos = cur /\ nodeState[cur] = "running"

\* The first agent is being provisioned after two servers are Done.
C4_Witness ==
  /\ Len(cfg.Servers) = 2
  /\ Len(cfg.Agents) >= 1
  /\ nodeState[3] = "running"
  /\ pc = "uploadUnit"

\* C5: with an empty server list Apply returns an error and nothing remote
\* happens, whatever the agents list is.
C5_NoServers ==
  Len(cfg.Servers) = 0 =>
    /\ NoRemoteInteraction
    /\ pc = "applyReturned" => applyErr = Err(0, "no servers defined")
    /\ exitCode # 0
    /\ \A p \in Positions : nodeState[p] = "pending"

\* Apply has returned on a configuration with agents but no servers.
C5_Witness ==
  /\ pc = "applyReturned"
  /\ Len(cfg.Servers) = 0
  /\ Len(cfg.Agents) > 0

\* C6: a failed credential step is a warning.  Whatever made
\* downloadKubeconfig fail, Apply goes on to the node listing and returns ok,
\* and the process exits with status 0.
C6_KubeconfigFailureIsWarning ==
  kcErr # NoErr =>
    /\ \A p \in Positions : nodeState[p] = "done"
    /\ applyErr = NoErr
    /\ pc \in {"infoConnect", "infoGetNodes", "applyReturned", "exited"}
    /\ pc = "exited" => exitCode = 0
    /\ \E i \in 1..Len(warnings) : warnings[i].op = "failed to download kubeconfig"

\* The fetched document did not parse, and the run still exited with status 0.
C6_Witness ==
  /\ pc = "exited"
  /\ exitCode = 0
  /\ kcErr = Err(1, "failed to modify kubeconfig")

\* The effective configuration (defaults applied) has a configuration error.
ConfigError ==
  LET c == WithDefaults(cfg) IN
    \/ ~WellFormedCidr(c.Cluster.ClusterCidr)
    \/ ~WellFormedCidr(c.Cluster.ServiceCidr)
    \/ ShareAnAddress(c.Cluster.ClusterCidr, c.Cluster.ServiceCidr)
    \/ \E i \in 1..Len(c.Servers) : BadAddress(c.Servers[i])
    \/ \E i \in 1..Len(c.Agents) : BadAddress(c.Agents[i])

\* C7: a configuration with a configuration error never gets as far as a
\* remote session, an asset resolution or even the temporary directory.
C7_ConfigErrorsBeforeRemote ==
  ConfigError =>
    /\ NoRemoteInteraction
    /\ ~tempDir.exists
    /\ pc \in {"main", "exited"}
    /\ pc = "exited" => exitCode = 1 /\ loadErr # NoError

\* A run on overlapping ranges has exited at Load.
C7_Witness ==
  /\ pc = "exited"
  /\ loadErr.kind = "overlap"
  /\ Len(cfg.Servers) > 0

\* C8: for every pair of valid CIDR strings, Validate rejects the pair for
\* its ranges exactly when the two ranges share an address (identical ranges
\* as "the same", other overlaps as "overlap"), and accepts a disjoint pair:
\* with valid node addresses Validate then returns no error.
C8_CidrPairs ==
  LET a == cfg.Cluster.ClusterCidr
      b == cfg.Cluster.ServiceCidr IN
    (pc = "validated" /\ WellFormedCidr(a) /\ WellFormedCidr(b)) =>
       /\ SameRange(a, b) <=> validateResult.kind = "same-cidr"
       /\ (ShareAnAddress(a, b) /\ ~SameRange(a, b)) <=> validateResult.kind = "overlap"
       /\ validateResult.kind # "invalid-cidr"
       /\ (/\ ~ShareAnAddress(a, b)
           /\ \A i \in 1..Len(cfg.Servers) : ~BadAddress(cfg.Servers[i])
           /\ \A i \in 1..Len(cfg.Agents) : ~BadAddress(cfg.Agents[i]))
            => validateResult = NoError

\* A pod range strictly inside the service range, away from the service
\* range's network address, was rejected as overlapping.
C8_Witness ==
  /\ pc = "validated"
  /\ validateResult.kind = "overlap"
  /\ cfg.Cluster.ClusterCidr.bits > cfg.Cluster.ServiceCidr.bits
  /\ NetworkAddress(cfg.Cluster.ServiceCidr) \notin AddressesOf(cfg.Cluster.ClusterCidr)

\* The bad-address nodes of the configuration, as positions in declared order.
BadPositions ==
  { i \in 1..Len(cfg.Servers) : BadAddress(cfg.Servers[i]) }
    \cup { Len(cfg.Servers) + i : i \in { j \in 1..Len(cfg.Agents) : BadAddress(cfg.Agents[j]) } }

FirstBadPosition == CHOOSE p \in BadPositions : \A q \in BadPositions : p <= q

\* C9: Validate fails whenever some server or agent address is empty or no
\* IP literal.  When the ranges pass, it fails only then, and the error names
\* a node with such an address (the first in declared order), with its list
\* and whether the address was empty or invalid.
C9_NodeAddresses ==
  pc = "validated" =>
    /\ BadPositions # {} => validateResult # NoError
    /\ validateResult.kind \in {"server", "agent"} =>
         /\ BadPositions # {}
         /\ validateResult.node = DeclaredNames[FirstBadPosition]
         /\ validateResult.kind =
              (IF FirstBadPosition <= Len(cfg.Servers) THEN "server" ELSE "agent")
         /\ LET n == IF FirstBadPosition <= Len(cfg.Servers)
                       THEN cfg.Servers[FirstBadPosition]
                       ELSE cfg.Agents[FirstBadPosition - Len(cfg.Servers)] IN
              validateResult.field =
                (IF n.IP = << >> THEN "ip address is empty" ELSE "invalid ip address")
    /\ (/\ WellFormedCidr(cfg.Cluster.ClusterCidr)
        /\ WellFormedCidr(cfg.Cluster.ServiceCidr)
        /\ ~ShareAnAddress(cfg.Cluster.ClusterCidr, cfg.Cluster.ServiceCidr))
         => /\ BadPositions = {} <=> validateResult = NoError
            /\ BadPositions # {} => validateResult.kind \in {"server", "agent"}

\* Valid servers and a second agent whose address is no IP literal: the error
\* names that agent.
C9_Witness ==
  /\ pc = "validated"
  /\ Len(cfg.Servers) = 2
  /\ Len(cfg.Agents) = 2
  /\ validateResult = ValidationError("agent", AgentNames[2], "invalid ip address")

\* C10: an image bundle that does not resolve is a warning and the sequence
\* goes on with the registry document or the uninstall script; a main binary
\* that does not resolve ends the sequence and Apply at once, with no unit
\* uploaded and no service started on that node.
C10_OptionalBundleMandatoryBinary ==
  \A i \in 1..Len(log) :
    /\ (log[i].op = "resolveTarball" /\ ~log[i].ok) =>
         /\ applyErr # Err(log[i].pos, "resolveTarball")
         /\ \E w \in 1..Len(warnings) :
              warnings[w] = Err(log[i].pos, "skipping images archive")
         /\ IF i = Len(log)
              THEN pc \in {"uploadRegistries", "uploadUninstall"} /\ cur = log[i].pos
              ELSE /\ log[i + 1].pos = log[i].pos
                   /\ log[i + 1].op \in {"uploadRegistries", "uploadUninstall"}
    /\ (log[i].op = "resolveBinary" /\ ~log[i].ok) =>
         /\ i = Len(log)
         /\ ApplyReturned
         /\ applyErr = Err(log[i].pos, "resolveBinary")
         /\ remote[log[i].pos].unit = NoUnit
         /\ ~remote[log[i].pos].started
         /\ \A j \in 1..Len(log) :
              log[j].pos = log[i].pos =>
                log[j].op \notin {"uploadUnit", "uploadUninstall", "daemonReload",
                                  "enable", "restart"}

\* The image bundle did not resolve on the primary, which nevertheless holds
\* its unit and was started, and the run exited with status 0.
C10_Witness ==
  /\ pc = "exited"
  /\ exitCode = 0
  /\ \E i \in 1..Len(log) : log[i].op = "resolveTarball" /\ ~log[i].ok /\ log[i].pos = 1
  /\ remote[1].unit # NoUnit
  /\ remote[1].started
  /\ nodeState[1] = "done"

\* C11: the credential file is fetched from the primary only after every
\* server and every agent has completed its sequence: a call of the credential
\* step is made only when every node is Done and no call of a node's sequence
\* follows it; once a node's sequence has failed, no credential call has been
\* made, no document is held and no local credential file has been written.
C11_FetchAfterAllNodes ==
  /\ ( \/ pc \in {"kcConnect", "kcDownload", "kcFallback", "kcPatch", "kcWrite"}
       \/ \E i \in 1..Len(log) : log[i].phase = "kubeconfig"
       \/ kubeconfigLocal.exists
       \/ kcContent # NoDoc )
        => \A p \in Positions : nodeState[p] = "done"
  /\ \A i \in 1..Len(log) :
       log[i].phase = "kubeconfig" =>
         /\ log[i].pos = 1
         /\ log[i].node = cfg.Servers[1].NodeName
         /\ \A j \in i..Len(log) : log[j].phase # "provision"
  /\ (\E p \in Positions : nodeState[p] = "failed") =>
       /\ \A i \in 1..Len(log) : log[i].phase # "kubeconfig"
       /\ ~kubeconfigLocal.exists
       /\ kcContent = NoDoc

\* Two servers and an agent are Done and the local credential file is written.
C11_Witness ==
  /\ Len(cfg.Servers) = 2
  /\ Len(cfg.Agents) >= 1
  /\ \A p \in Positions : nodeState[p] = "done"
  /\ kubeconfigLocal.exists
  /\ \E i \in 1..Len(log) : log[i].phase = "kubeconfig" /\ log[i].op = "downloadDefault"

\* C12: no rollback.  A node that is Done keeps, in every later step of the
\* run, exactly the remote state its own sequence left; and from the step in
\* which the sequence of node k fails onwards, no node before k changes, is
\* called or gets a session.
C12_NoRollback ==
  [][ /\ \A j \in Positions :
           nodeState[j] = "done" => remote'[j] = remote[j] /\ nodeState'[j] = "done"
      /\ \A k \in Positions :
           (nodeState[k] = "failed" \/ nodeState'[k] = "failed") =>
             \A j \in 1..(k - 1) :
               /\ remote'[j] = remote[j]
               /\ \A i \in (Len(log) + 1)..Len(log') : log'[i].pos # j
               /\ \A c \in sessions' : c.pos # j ]_vars

\* The primary completed, was started and holds its unit; the second node's
\* sequence failed and the process has exited.
C12_Witness ==
  /\ pc = "exited"
  /\ Len(cfg.Servers) + Len(cfg.Agents) >= 2
  /\ nodeState[1] = "done"
  /\ nodeState[2] = "failed"
  /\ applyErr.pos = 2
  /\ remote[1].started
  /\ remote[1].enabled
  /\ remote[1].unit # NoUnit
  /\ UnitPath(1) \in remote[1].files

\* The calls of node p's sequence made in this run, in order.
StepsOf(p) ==
  LET mine == SelectSeq(log, LAMBDA e : e.pos = p /\ e.phase = "provision") IN
    [i \in 1..Len(mine) |-> mine[i].op]

BundleResolved(p) ==
  \E i \in 1..Len(log) : log[i].pos = p /\ log[i].op = "resolveTarball" /\ log[i].ok

\* Every step of the provisioning sequence of the node at position p.
WholeSequence(p) ==
  <<"connect", "mkdirBin", "mkdirImages", "mkdirEtc", "resolveBinary", "uploadBinary",
    "chmodBinary", "resolveTarball">>
    \o (IF BundleResolved(p) THEN <<"uploadTarball">> ELSE << >>)
    \o (IF cfg.Cluster.Registries # "" THEN <<"uploadRegistries">> ELSE << >>)
    \o <<"uploadUninstall", "chmodUninstall", "uploadUnit", "daemonReload", "enable",
         "restart">>
    \o (IF p <= Len(cfg.Servers) THEN <<"kubectlLink">> ELSE << >>)

InNodeSequence ==
  pc \in {"connect", "mkdirBin", "mkdirImages", "mkdirEtc", "resolveBinary",
          "uploadBinary", "chmodBinary", "resolveTarball", "uploadTarball",
          "uploadRegistries", "uploadUninstall", "chmodUninstall", "uploadUnit",
          "daemonReload", "enable", "restart", "settle", "kubectlLink"}

\* C13: no checkpointing.  In every invocation, whatever an earlier one left on
\* the nodes: the first remote call is the connection to servers[0]; a node is
\* reached only after every node before it completed in this invocation; and a
\* node that is Done went through every step of its sequence in this
\* invocation.
C13_NoCheckpoint ==
  /\ log # << >> =>
       log[1].pos = 1 /\ log[1].op = "connect" /\ log[1].phase = "provision"
  /\ InNodeSequence =>
       /\ cur \in Positions
       /\ \A j \in 1..(cur - 1) : nodeState[j] = "done"
  /\ (pc \in {"kcConnect", "kcDownload", "kcFallback", "kcPatch", "kcWrite"}) =>
       \A j \in Positions : nodeState[j] = "done"
  /\ \A p \in Positions : nodeState[p] = "done" => StepsOf(p) = WholeSequence(p)

\* A second invocation, after one that completed the primary and failed on the
\* second node, is uploading the binary to the primary again.
C13_Witness ==
  /\ run = 2
  /\ Len(cfg.Servers) + Len(cfg.Agents) >= 2
  /\ pc = "uploadBinary"
  /\ cur = 1
  /\ remote[1].started
  /\ remote[1].kubectl
  /\ remote[2].dirs # {}
  /\ ~remote[2].started

\* A second invocation, after one that completed every node, has completed
\* every node again.
C13_WitnessAfterSuccess ==
  /\ run = 2
  /\ pc = "exited"
  /\ exitCode = 0
  /\ Len(cfg.Servers) + Len(cfg.Agents) >= 2
  /\ \A p \in Positions : nodeState[p] = "done" /\ StepsOf(p) = WholeSequence(p)

\* ---- vocabulary of the asset claims
IsHttpUrl(ref) == ref.scheme = "http" \/ ref.scheme = "https"

WithoutDots(segs) == SelectSeq(segs, LAMBDA x : x # ".")

\* The reference is a local path and a file of that path exists.
ExistingLocalPath(ref) ==
  /\ ~IsHttpUrl(ref)
  /\ \E f \in localFiles : f.scheme = ref.scheme /\ f.segs = WithoutDots(ref.segs)

FinalSegment(ref) == ref.segs[Len(ref.segs)]

InTempDir(name) == [scheme |-> "", segs |-> <<"$TMPDIR", "k3air-assets", name>>]

\* The reference is the binary's or the image bundle's default filename, bare
\* or written with a leading "./".
NamesDefaultFile(ref) ==
  /\ ref.scheme = ""
  /\ \/ Len(ref.segs) = 1
     \/ Len(ref.segs) = 2 /\ ref.segs[1] = "."
  /\ FinalSegment(ref) \in {"k3s", "k3s-airgap-images-amd64.tar.gz"}

ResolveStep == calls' = calls + 1 /\ arg'.op = "ResolveAsset"

CleanupStep == calls' = calls + 1 /\ arg'.op = "Cleanup"

\* C14: ResolveAsset on a reference that is an existing local path returns
\* exactly that reference and changes nothing: the temporary directory and
\* the downloaded-files record are as before, and no HTTP request is issued.
C14_LocalPathUnchanged ==
  [][ (ResolveStep /\ ExistingLocalPath(arg'.source)) =>
        /\ ret'.ok
        /\ ret'.path = arg'.source
        /\ ~ret'.get
        /\ tempDir' = tempDir
        /\ downloadedFiles' = downloadedFiles
        /\ localFiles' = localFiles ]_vars

\* "./k3s" resolved to itself after a download had put a file in the
\* temporary directory.
C14_Witness ==
  /\ arg.op = "ResolveAsset"
  /\ arg.source = LocalPath(<<".", "k3s">>)
  /\ ret.ok
  /\ ret.path = LocalPath(<<".", "k3s">>)
  /\ tempDir.files # {}
  /\ Len(downloadedFiles) = 1

\* C15: ResolveAsset on an HTTP(S) URL creates no file but the one named by
\* the URL's final path segment, inside the temporary directory, and when it
\* succeeds that file exists and its path is returned; after a Cleanup that
\* returned no error neither a file nor the directory exists, whatever calls
\* (repeated URLs, failed downloads) came before.
C15_UrlOneFileThenCleanup ==
  /\ [][ (ResolveStep /\ IsHttpUrl(arg'.source)) =>
           /\ tempDir'.files \subseteq tempDir.files \cup {FinalSegment(arg'.source)}
           /\ tempDir'.exists = tempDir.exists
           /\ localFiles' = localFiles
           /\ ret'.ok =>
                /\ tempDir'.exists
                /\ tempDir'.files = tempDir.files \cup {FinalSegment(arg'.source)}
                /\ ret'.path = InTempDir(FinalSegment(arg'.source))
                /\ downloadedFiles' = Append(downloadedFiles, ret'.path) ]_vars
  /\ []((arg.op = "Cleanup" /\ ret.ok) => ~tempDir.exists /\ tempDir.files = {})

\* The same file name was downloaded twice, then Cleanup removed everything.
C15_Witness ==
  /\ arg.op = "Cleanup"
  /\ ret.ok
  /\ ~tempDir.exists
  /\ tempDir.files = {}
  /\ Len(downloadedFiles) = 2
  /\ downloadedFiles[1] = downloadedFiles[2]

\* C16: Cleanup is idempotent.  Called when the directory is already missing
\* (after a Cleanup that succeeded, or removed by someone else) it returns no
\* error and leaves the state exactly as it was.
C16_CleanupIdempotent ==
  [][ (CleanupStep /\ (~tempDir.exists \/ (arg.op = "Cleanup" /\ ret.ok))) =>
        /\ ret'.ok
        /\ tempDir' = tempDir
        /\ ~tempDir'.exists
        /\ downloadedFiles' = downloadedFiles
        /\ localFiles' = localFiles ]_vars

\* Cleanup succeeded twice in a row after a download.
C16_Witness ==
  /\ arg.op = "Cleanup"
  /\ arg.prev = [op |-> "Cleanup", ok |-> TRUE]
  /\ ret.ok
  /\ downloadedFiles # << >>
  /\ ~tempDir.exists

C17_WitnessNoHint ==
  /\ arg.op = "ResolveAsset"
  /\ arg.source = LocalPath(<<"assets", "k3s">>)
  /\ ~ret.ok
  /\ ~ret.hint

\* ---- vocabulary of the credential-document claims
LoopbackText == [t |-> "%s", ip |-> <<127, 0, 0, 1>>]

AddressText(ip) == [t |-> "%s", ip |-> ip]

ContainsLoopback(url) == \E i \in 1..Len(url) : url[i] = LoopbackText

\* The URL with every occurrence of the loopback text replaced by the address.
WithHost(url, ip) ==
  [i \in 1..Len(url) |-> IF url[i] = LoopbackText THEN AddressText(ip) ELSE url[i]]

\* The document has a first cluster entry with a server URL.
HasFirstServer(d) ==
  d.yaml /\ d.hasClusters /\ Len(d.clusters) > 0 /\ d.clusters[1].hasServer

OtherEntriesKept(before, after) ==
  /\ Len(after.clusters) = Len(before.clusters)
  /\ \A k \in 2..Len(before.clusters) : after.clusters[k] = before.clusters[k]

ValueFlags ==
  {"--server", "--flannel-backend", "--cluster-cidr", "--service-cidr", "--data-dir",
   "--node-name", "--tls-san", "--disable", "--node-label", "--token"}

EmptyText == [t |-> "", ip |-> << >>]

\* The place of a flag in the order the claim gives (0: not named by it).
FlagGroup(text) ==
  CASE text \in {"--cluster-init", "--server"} -> 1
    [] text \in {"--cluster-cidr", "--service-cidr"} -> 2
    [] text = "--data-dir" -> 3
    [] text = "--node-name" -> 4
    [] text = "--embedded-registry" -> 5
    [] text = "--tls-san" -> 6
    [] text = "--disable" -> 7
    [] text = "--node-label" -> 8
    [] text = "--token" -> 9
    [] OTHER -> 0

\* C19: in a generated unit no flag that takes a value is followed by an
\* empty value (or by nothing): a flag whose backing value is empty is left
\* out.
C19_NoEmptyFlagValue ==
  pc = "unitDone" =>
    \A i \in 1..Len(ret.args) :
      ret.args[i].t \in ValueFlags =>
        i < Len(ret.args) /\ ret.args[i + 1] # EmptyText

\* C20: the flags of a generated unit are in the fixed order: the role flag
\* first (--cluster-init for the primary; --server with the join target for a
\* secondary and for a worker), then ranges, data directory, node name,
\* embedded-registry toggle, certificate names, disabled components, node
\* labels, and --token is the last flag.
C20_FlagOrder ==
  pc = "unitDone" =>
    LET a == ret.args
        n == Len(ret.args) IN
      /\ n >= 5
      /\ a[2].t = (IF arg.role = "worker" THEN "agent" ELSE "server")
      /\ a[3].t = (IF arg.role = "primary" THEN "--cluster-init" ELSE "--server")
      /\ arg.role # "primary" => a[4] = [t |-> "https://%s:6443", ip |-> arg.primaryIP]
      /\ \A i \in 4..n : a[i].t \notin {"--cluster-init", "--server"}
      /\ a[n - 1].t = "--token"
      /\ \A i \in 1..n : a[i].t = "--token" => i = n - 1
      /\ \A i \in 1..n : \A j \in i..n :
           (FlagGroup(a[i].t) > 0 /\ FlagGroup(a[j].t) > 0) =>
              FlagGroup(a[i].t) <= FlagGroup(a[j].t)

\* A secondary's unit that carries a flag of every group.
C20_Witness ==
  /\ pc = "unitDone"
  /\ arg.role = "secondary"
  /\ \A g \in 1..9 : \E i \in 1..Len(ret.args) : FlagGroup(ret.args[i].t) = g
  /\ \E i \in 1..Len(ret.args) : ret.args[i].t = "--flannel-backend"

\* ---- vocabulary of the generation claims
\* The step just taken is a successful upload of kind op to node p.
Uploaded(op, p) ==
  /\ Len(log') = Len(log) + 1
  /\ Last(log').op = op
  /\ Last(log').pos = p
  /\ Last(log').ok

DeclaresBoth(node) == node.Password # "" /\ node.KeyPath # ""

\* C22: for a node that declares both a password and a key_path, key
\* authentication is the first candidate mechanism of every session opened to
\* it.
C22_KeyOfferedFirst ==
  \A s \in sessions :
    DeclaresBoth(NodeAt(s.pos)) => s.auth # << >> /\ s.auth[1] = "publickey"

\* ---- vocabulary of the step-order claim
\* The remote steps of a node sequence in the order the claim gives them;
\* resolving an artifact is part of uploading it.
StepOrder ==
  <<"connect", "mkdirBin", "mkdirImages", "mkdirEtc", "resolveBinary", "uploadBinary",
    "chmodBinary", "resolveTarball", "uploadTarball", "uploadRegistries",
    "uploadUninstall", "chmodUninstall", "uploadUnit", "daemonReload", "enable",
    "restart", "kubectlLink">>

StepIndex(op) ==
  CASE op = "connect" -> 1
    [] op = "mkdirBin" -> 2
    [] op = "mkdirImages" -> 3
    [] op = "mkdirEtc" -> 4
    [] op = "resolveBinary" -> 5
    [] op = "uploadBinary" -> 6
    [] op = "chmodBinary" -> 7
    [] op = "resolveTarball" -> 8
    [] op = "uploadTarball" -> 9
    [] op = "uploadRegistries" -> 10
    [] op = "uploadUninstall" -> 11
    [] op = "chmodUninstall" -> 12
    [] op = "uploadUnit" -> 13
    [] op = "daemonReload" -> 14
    [] op = "enable" -> 15
    [] op = "restart" -> 16
    [] op = "kubectlLink" -> 17
    [] OTHER -> 0

OptionalSteps == {"resolveTarball", "uploadTarball", "uploadRegistries"}

\* The remote step that ends the sequence of the node at position p.
LastStep(p) == IF IsServer(p) THEN "kubectlLink" ELSE "restart"

\* C23: within one node's sequence the steps are taken in the fixed order
\* (session, directories, main binary, optional image bundle, optional
\* registry document, uninstall script, unit, reload, enable, restart, settle
\* wait, and for servers the link step): every remote step taken comes later
\* in that order than the node's step before it (so none is taken twice),
\* leaves out none but an optional one, and is taken only after that step
\* succeeded; a node's first step opens its session, after the last step of
\* the node before it; the settle wait follows a successful restart, the link
\* step is taken on servers only, and an agent is Done without it.
C23_StepOrder ==
  /\ [][(Len(log') > Len(log) /\ Last(log').phase = "provision") =>
          LET step == Last(log') IN
            /\ StepIndex(step.op) > 0
            /\ step.pos = cur
            /\ step.op = "kubectlLink" => IsServer(step.pos)
            /\ step.op = "connect" <=> (log = << >> \/ Last(log).pos # step.pos)
            /\ (log # << >> /\ Last(log).pos # step.pos) =>
                 /\ step.pos = Last(log).pos + 1
                 /\ Last(log).ok
                 /\ Last(log).op = LastStep(Last(log).pos)
            /\ (log # << >> /\ Last(log).pos = step.pos) =>
                 /\ StepIndex(Last(log).op) < StepIndex(step.op)
                 /\ \A k \in (StepIndex(Last(log).op) + 1)..(StepIndex(step.op) - 1) :
                      StepOrder[k] \in OptionalSteps
                 /\ Last(log).ok \/ Last(log).op = "resolveTarball"
                 /\ step.op = "uploadTarball" =>
                      Last(log).op = "resolveTarball" /\ Last(log).ok]_vars
  /\ [](/\ \A p \in Positions :
            nodeState[p] = "done" =>
              \E i \in 1..Len(log) :
                /\ log[i].phase = "provision"
                /\ log[i].pos = p
                /\ log[i].op = LastStep(p)
                /\ log[i].ok
        /\ pc \in {"settle", "kubectlLink"} =>
             /\ Last(log).pos = cur
             /\ Last(log).op = "restart"
             /\ Last(log).ok
             /\ remote[cur].started
        /\ pc = "kubectlLink" => IsServer(cur))

\* A server and an agent are Done, both with the image bundle and the
\* registry document uploaded.
C23_Witness ==
  /\ pc \in {"applyReturned", "exited"}
  /\ NumServers >= 1
  /\ NumNodes > NumServers
  /\ \A p \in Positions :
       /\ nodeState[p] = "done"
       /\ \E i \in 1..Len(log) : log[i].pos = p /\ log[i].op = "uploadTarball" /\ log[i].ok
       /\ \E i \in 1..Len(log) : log[i].pos = p /\ log[i].op = "uploadRegistries" /\ log[i].ok
  /\ \E i \in 1..Len(log) : log[i].pos = 1 /\ log[i].op = "kubectlLink" /\ log[i].ok
  /\ ~ \E i \in 1..Len(log) : log[i].pos = NumNodes /\ log[i].op = "kubectlLink"

\* Where a run is between its operations: no node sequence, credential fetch
\* or node listing has a session of its own.
BetweenOperations ==
  pc \in {"main", "newInstaller", "apply", "connect", "kcConnect", "infoConnect",
          "applyReturned", "exited"}

InCredentialFetch == pc \in {"kcDownload", "kcFallback", "kcPatch", "kcWrite"}

InNodeListing == pc = "infoGetNodes"

\* C24: at most one session is open; the open session is the one of the
\* operation in progress (the current node's sequence, the credential fetch or
\* the node listing), and between operations, after a failed step as after a
\* completed one, no session is open.
C24_OneSessionAtATime ==
  /\ Cardinality(sessions) <= 1
  /\ BetweenOperations => sessions = {}
  /\ InCredentialFetch => sessions = {Session(1, "kubeconfig")}
  /\ InNodeListing => sessions = {Session(1, "info")}
  /\ (~BetweenOperations /\ ~InCredentialFetch /\ ~InNodeListing) =>
       sessions = {Session(cur, "provision")}

\* The second node's sequence failed at a step taken inside its session, after
\* the first node's sequence had completed: Apply has returned and no session
\* is open.
C24_Witness ==
  /\ pc = "applyReturned"
  /\ NumNodes >= 2
  /\ nodeState[1] = "done"
  /\ nodeState[2] = "failed"
  /\ applyErr = Err(2, "uploadUnit")
  /\ sessions = {}

\* ---- vocabulary of the credential claims
\* The log entries of the credential fetch.
FetchEntries == SelectSeq(log, LAMBDA e : e.phase = "kubeconfig")

DownloadFailed == Err(1, "failed to download kubeconfig")

\* A read of the given kind was attempted and has the given outcome.
ReadOutcome(op, ok) ==
  \E i \in 1..Len(FetchEntries) : FetchEntries[i].op = op /\ FetchEntries[i].ok = ok

\* C25: the credential fetch reads the data-directory path first and the
\* default path only right after that read failed; after a successful first
\* read nothing more is read; the fetch fails with the download error exactly
\* when both reads failed, and goes on to the patch when either succeeded.
C25_FallbackOnlyAfterFailure ==
  LET es == FetchEntries IN
    /\ \A i \in 1..Len(es) :
         /\ es[i].op = "downloadDataDir" => i = 2 /\ es[1].op = "connect" /\ es[1].ok
         /\ es[i].op = "downloadDefault" =>
              i = 3 /\ es[2].op = "downloadDataDir" /\ ~es[2].ok
         /\ (es[i].op = "downloadDataDir" /\ es[i].ok) => i = Len(es)
    /\ pc = "kcFallback" <=> (Len(es) = 2 /\ ~es[2].ok)
    /\ kcErr = DownloadFailed <=>
         (ReadOutcome("downloadDataDir", FALSE) /\ ReadOutcome("downloadDefault", FALSE))
    /\ pc = "kcPatch" =>
         (ReadOutcome("downloadDataDir", TRUE) \/ ReadOutcome("downloadDefault", TRUE))

\* The first read failed, the default path was read instead and the fetched
\* document was written.
C25_Witness ==
  /\ pc = "applyReturned"
  /\ ReadOutcome("downloadDataDir", FALSE)
  /\ ReadOutcome("downloadDefault", TRUE)
  /\ kcErr = NoErr
  /\ kubeconfigLocal.exists

\* Both reads failed and the fetch returned the download error.
C25_WitnessBothFail ==
  /\ pc = "applyReturned"
  /\ ReadOutcome("downloadDataDir", FALSE)
  /\ ReadOutcome("downloadDefault", FALSE)
  /\ kcErr = DownloadFailed

\* ---- vocabulary of the command-error claim
\* The steps of a node sequence that run a remote command.
CommandSteps ==
  {"mkdirBin", "mkdirImages", "mkdirEtc", "chmodBinary", "chmodUninstall",
   "daemonReload", "enable", "restart", "kubectlLink"}

UnitName(p) == IF p <= Len(cfg.Servers) THEN "k3s" ELSE "k3s-agent"

\* The command line each of those steps gives to the node at position p.
CommandText(p, op) ==
  CASE op = "mkdirBin" -> [text |-> "mkdir -p /usr/local/bin", path |-> << >>]
    [] op = "mkdirImages" ->
         [text |-> "mkdir -p %s",
          path |-> SelectSeq(<<cfg.Cluster.DataDir, "agent", "images">>, LAMBDA e : e # "")]
    [] op = "mkdirEtc" -> [text |-> "mkdir -p /etc/rancher/k3s", path |-> << >>]
    [] op = "chmodBinary" -> [text |-> "chmod +x /usr/local/bin/k3s", path |-> << >>]
    [] op = "chmodUninstall" ->
         [text |-> "chmod +x /usr/local/bin/k3s-uninstall.sh", path |-> << >>]
    [] op = "daemonReload" -> [text |-> "systemctl daemon-reload", path |-> << >>]
    [] op = "enable" ->
         [text |-> IF UnitName(p) = "k3s" THEN "systemctl enable k3s"
                   ELSE "systemctl enable k3s-agent", path |-> << >>]
    [] op = "restart" ->
         [text |-> IF UnitName(p) = "k3s" THEN "systemctl restart k3s"
                   ELSE "systemctl restart k3s-agent", path |-> << >>]
    [] op = "kubectlLink" ->
         [text |-> "cp /usr/local/bin/k3s /usr/local/bin/kubectl -f", path |-> << >>]

\* C26: when a remote command of a node sequence fails, Apply has returned,
\* and the error it returned is the one made for that command: it carries the
\* command's text and what the command wrote to stdout and to stderr.
C26_CommandErrorReturned ==
  \A i \in 1..Len(log) :
    (log[i].phase = "provision" /\ ~log[i].ok /\ log[i].op \in CommandSteps) =>
      /\ ApplyReturned
      /\ applyErr.pos = log[i].pos
      /\ applyErr.op = log[i].op
      /\ applyErr.cmd = CommandText(log[i].pos, log[i].op)
      /\ applyErr.stdout = log[i].stdout
      /\ applyErr.stderr = log[i].stderr

\* An agent's restart command failed after writing to both streams, and Apply
\* returned the error with both.
C26_Witness ==
  /\ pc = "applyReturned"
  /\ Len(log) > 0
  /\ Last(log).op = "restart"
  /\ ~Last(log).ok
  /\ ~IsServer(Last(log).pos)
  /\ Last(log).stdout = "out"
  /\ Last(log).stderr = "permission denied"
  /\ applyErr.cmd.text = "systemctl restart k3s-agent"
  /\ applyErr.stdout = "out"
  /\ applyErr.stderr = "permission denied"

\* ---- vocabulary of the worker-unit claim
ControlPlaneFlags ==
  {"--cluster-init", "--cluster-cidr", "--service-cidr", "--flannel-backend",
   "--embedded-registry", "--tls-san", "--disable"}

WorkerFlags == {"--server", "--data-dir", "--node-name", "--node-label", "--token"}

\* The values the cluster section gives to the control-plane flags.
ControlPlaneValues(cluster) ==
  ({cluster.FlannelBackend} \cup Range(cluster.TLSSAN) \cup Range(cluster.Disable)) \ {""}

\* The argument at place i of a unit is a flag, not the value of the flag
\* before it.
IsFlagAt(args, i) == i > 2 /\ (args[i - 1].t \notin ValueFlags \/ i = 3)

\* C27: a worker's unit carries only the join target, the optional data
\* directory, the node name, the node labels and the token: none of its
\* arguments is a control-plane flag (network ranges, flannel backend,
\* embedded-registry toggle, certificate names, disabled components) or a
\* value configured for one, whatever the cluster section configures.
C27_WorkerUnitHasNoServerFlags ==
  (pc = "unitDone" /\ arg.role = "worker") =>
    /\ ret.name = "k3s-agent"
    /\ \A i \in 1..Len(ret.args) :
         /\ ret.args[i].t \notin ControlPlaneFlags
         /\ ret.args[i].t # "%s/%d"
         /\ IsFlagAt(ret.args, i) => ret.args[i].t \in WorkerFlags
         /\ (i > 1 /\ ret.args[i - 1].t \notin {"--node-label", "--node-name", "--token",
                                                "--data-dir"})
              => ret.args[i].t \notin ControlPlaneValues(arg.cluster)

\* A worker's unit generated from a cluster section that configures every
\* control-plane setting.
C27_Witness ==
  /\ pc = "unitDone"
  /\ arg.role = "worker"
  /\ arg.cluster.FlannelBackend # ""
  /\ arg.cluster.ClusterCidr.set
  /\ arg.cluster.ServiceCidr.set
  /\ arg.cluster.EmbeddedRegistry
  /\ arg.cluster.TLSSAN # << >>
  /\ arg.cluster.Disable # << >>
  /\ arg.cluster.DataDir # ""
  /\ arg.node.Labels # << >>
  /\ Len(ret.args) > 4

\* The credential step is where it can fail before the write: connecting,
\* reading, parsing.
BeforeWrite == pc \in {"kcConnect", "kcDownload", "kcFallback", "kcPatch"}

FetchErrors ==
  {Err(1, "connect"), Err(1, "failed to download kubeconfig"),
   Err(1, "failed to modify kubeconfig")}

\* C28: the local credential file changes only in the write that follows a
\* successful fetch and a successful patch, and it then holds the patched
\* document; a credential step that ends while connecting, after both reads
\* failed, or in the parse returns an error and leaves the local file as it
\* was, existing or not.
C28_WriteOnlyAfterFetchAndPatch ==
  /\ [][/\ kubeconfigLocal' # kubeconfigLocal =>
             /\ pc = "kcWrite"
             /\ ReadOutcome("downloadDataDir", TRUE) \/ ReadOutcome("downloadDefault", TRUE)
             /\ kcContent.yaml
             /\ kubeconfigLocal' = [exists |-> TRUE, content |-> kcContent]
             /\ kcErr' = NoErr
        /\ (BeforeWrite /\ pc' = "infoConnect") =>
             /\ kcErr' \in FetchErrors
             /\ kubeconfigLocal' = kubeconfigLocal]_vars
  /\ [](kcErr \in FetchErrors => (run = 1 => ~kubeconfigLocal.exists))

\* The first run wrote the file; in the second run the parse of the fetched
\* document failed and the file is still the first run's.
C28_Witness ==
  /\ run = 2
  /\ pc = "exited"
  /\ kcErr = Err(1, "failed to modify kubeconfig")
  /\ kubeconfigLocal.exists
  /\ kubeconfigLocal.content.yaml

\* A well-formed mapping without a first cluster entry that has a string
\* server field: no clusters list, an empty one, or a first entry without it.
UnexpectedShape(d) ==
  d.yaml /\ (~d.hasClusters \/ Len(d.clusters) = 0 \/ ~d.clusters[1].hasServer)

\* C29: on a well-formed mapping of an unexpected shape (no clusters list, an
\* empty one, a first entry without a string server field)
\* replaceKubeconfigServer returns the document as it is with wasReplaced =
\* false and no error, the credential step goes on to the write, and a write
\* that succeeds leaves that unpatched document in the local file.
C29_UnexpectedShapeIsNoOp ==
  [][/\ (pc = "kcPatch" /\ UnexpectedShape(kcContent)) =>
          /\ replaceKubeconfigServer(kcContent, Primary.IP) = Patched(kcContent, FALSE, FALSE)
          /\ pc' = "kcWrite"
          /\ kcContent' = kcContent
          /\ kcErr' = NoErr
          /\ warnings' = warnings
     /\ (pc = "kcWrite" /\ UnexpectedShape(kcContent)) =>
          \/ kcErr' = NoErr /\ kubeconfigLocal' = [exists |-> TRUE, content |-> kcContent]
          \/ kcErr' = Err(1, "failed to write kubeconfig")
               /\ kubeconfigLocal' = kubeconfigLocal]_vars

\* A fetched document whose first entry has no server field (and whose second
\* names the loopback address) was written as it was fetched.
C29_Witness ==
  /\ pc = "applyReturned"
  /\ kcErr = NoErr
  /\ kubeconfigLocal.exists
  /\ kubeconfigLocal.content.hasClusters
  /\ Len(kubeconfigLocal.content.clusters) = 2
  /\ ~kubeconfigLocal.content.clusters[1].hasServer
  /\ kubeconfigLocal.content.clusters[2].server = LoopbackUrl

\* A fetched document without a clusters list, and one with an empty list,
\* were written as they were fetched.
C29_WitnessNoClusters ==
  /\ pc = "applyReturned"
  /\ kcErr = NoErr
  /\ kubeconfigLocal = [exists |-> TRUE,
                        content |-> [yaml |-> TRUE, hasClusters |-> FALSE, clusters |-> << >>]]

C29_WitnessEmptyClusters ==
  /\ pc = "applyReturned"
  /\ kcErr = NoErr
  /\ kubeconfigLocal = [exists |-> TRUE, content |-> Doc(<< >>)]

\* ---- vocabulary of the per-node resolution claim
\* The places in the log where ResolveAsset was called for the main binary.
BinaryResolutions == {i \in 1..Len(log) : log[i].op = "resolveBinary"}

\* Where the download of the main binary is put.
BinaryTempPath ==
  [scheme |-> "",
   segs |-> <<"$TMPDIR", "k3air-assets", cfg.Assets.K3sBinary.segs[Len(cfg.Assets.K3sBinary.segs)]>>]

\* The entries of the downloaded-files record that name that path.
BinaryDownloads == {k \in 1..Len(downloadedFiles) : downloadedFiles[k] = BinaryTempPath}

AllNodesDone == \A p \in Positions : nodeState[p] = "done"

\* C30: the main binary is resolved once per node: every node whose sequence
\* got as far as the binary has exactly one ResolveAsset call for it, so an
\* Apply that provisions n nodes made n calls; with a URL reference every
\* successful call downloaded to the same temporary path and added one entry
\* to the downloaded-files record, duplicates included.
C30_ResolvedOncePerNode ==
  pc \notin {"main", "newInstaller", "exited"} =>
    /\ \A p \in Positions :
         LET mine == {i \in BinaryResolutions : log[i].pos = p} IN
           /\ Cardinality(mine) <= 1
           /\ (\E i \in 1..Len(log) : log[i].pos = p /\ log[i].op = "mkdirEtc" /\ log[i].ok)
                => (Cardinality(mine) = 1 \/ (cur = p /\ pc = "resolveBinary"))
    /\ AllNodesDone => Cardinality(BinaryResolutions) = NumNodes
    /\ cfg.Assets.K3sBinary.scheme \in {"http", "https"} =>
         /\ Cardinality(BinaryDownloads) = Cardinality({i \in BinaryResolutions : log[i].ok})
         /\ AllNodesDone => Cardinality(BinaryDownloads) = NumNodes
         /\ Cardinality(BinaryDownloads) > 0 =>
              cfg.Assets.K3sBinary.segs[Len(cfg.Assets.K3sBinary.segs)] \in tempDir.files
    /\ cfg.Assets.K3sBinary.scheme \notin {"http", "https"} => BinaryDownloads = {}

\* Every node of a run with a URL for the main binary, the most nodes a
\* document may declare, is Done: as many downloads are recorded as nodes,
\* all to one path.
C30_Witness ==
  /\ pc = "applyReturned"
  /\ cfg.Assets.K3sBinary.scheme = "https"
  /\ NumNodes = MaxServers + MaxAgents
  /\ AllNodesDone
  /\ Cardinality(BinaryDownloads) = NumNodes
  /\ Cardinality(BinaryDownloads) >= 2

\* ---- vocabulary of the defaults claim
\* Load has returned a configuration without error and the run goes on with it.
LoadReturned == pc # "main" /\ loadErr = NoError

EmptyReference(ref) == ref.scheme = "" /\ ref.segs = << >>

\* C31: in every configuration Load returned the image-bundle reference, the
\* main-binary reference, the pod range, the service range and the data
\* directory are non-empty and every node port is non-zero; so in a run
\* started from Load the image-bundle resolution is attempted on every node
\* whose main binary was made executable, and the sequence never goes from
\* the main binary straight on to the registry document or uninstall script.
C31_LoadedConfigHasDefaults ==
  LoadReturned =>
    /\ ~EmptyReference(cfg.Assets.K3sAirgapTarball)
    /\ ~EmptyReference(cfg.Assets.K3sBinary)
    /\ cfg.Cluster.ClusterCidr.set
    /\ cfg.Cluster.ServiceCidr.set
    /\ cfg.Cluster.DataDir # ""
    /\ \A k \in 1..Len(cfg.Servers) : cfg.Servers[k].Port # 0
    /\ \A k \in 1..Len(cfg.Agents) : cfg.Agents[k].Port # 0
    /\ \A i \in 1..Len(log) :
         (log[i].op = "chmodBinary" /\ log[i].ok) =>
           IF i = Len(log)
             THEN pc = "resolveTarball" /\ cur = log[i].pos
             ELSE log[i + 1].op = "resolveTarball" /\ log[i + 1].pos = log[i].pos

\* A run from a document that names no image bundle and no port: the loaded
\* configuration names the default file, every node is Done, and the bundle's
\* resolution was attempted on each of them (the default file is absent).
C31_Witness ==
  /\ pc = "applyReturned"
  /\ loadErr = NoError
  /\ cfg.Assets.K3sAirgapTarball.segs = <<"k3s-airgap-images-amd64.tar.gz">>
  /\ cfg.Assets.K3sBinary.segs = <<"k3s">>
  /\ NumNodes >= 2
  /\ \A p \in Positions :
       /\ nodeState[p] = "done"
       /\ NodeAt(p).Port = 22
       /\ \E i \in 1..Len(log) :
            log[i].pos = p /\ log[i].op = "resolveTarball" /\ ~log[i].ok

\* ------------------------------------------------------------ `k3air init`
\* The active lines of internal/config/init.yaml.template.
TemplateDoc ==
  [Cluster |->
     [FlannelBackend |-> "vxlan", ClusterCidr |-> DefaultClusterCidr,
      ServiceCidr |-> DefaultServiceCidr, Token |-> "k3air-token", TLSSAN |-> << >>,
      Disable |-> << >>, DataDir |-> DefaultDataDir, EmbeddedRegistry |-> TRUE,
      Registries |-> ""],
   Assets |-> [K3sBinary |-> LocalPath(<<".", "k3s">>),
               K3sAirgapTarball |-> LocalPath(<<".", "k3s-airgap-images-amd64.tar.gz">>)],
   Servers |-> <<[NodeName |-> "k3s-server-0", IP |-> GoodIP(1), Port |-> 22,
                  User |-> "root", Password |-> "123456", KeyPath |-> "",
                  Labels |-> << >>]>>,
   Agents |-> << >>]

\* `k3air init` is started in a working directory where init.yaml is absent,
\* holds the template, is empty, or holds a configuration the user wrote (cfg).
InitCommand ==
  /\ cfg \in RunConfigs
  /\ initYaml \in {NoFile, ConfigFile(cfg), ConfigFile(TemplateDoc), ConfigFile(NoFile.content)}
  /\ localFiles = {}
  /\ kubeconfigLocal = [exists |-> FALSE, content |-> NoDoc]
  /\ pc = "initStat"
  /\ cur = 0
  /\ loadErr = NoError
  /\ tempDir = [exists |-> FALSE, files |-> {}]
  /\ downloadedFiles = << >>
  /\ sessions = {}
  /\ remote = << >>
  /\ nodeState = << >>
  /\ log = << >>
  /\ warnings = << >>
  /\ applyErr = NoErr
  /\ kcErr = NoErr
  /\ kcContent = NoDoc
  /\ exitCode = -1
  /\ cleanups = 0
  /\ validateResult = NoError
  /\ run = 1
  /\ arg = NoCall
  /\ ret = NoReturn
  /\ calls = 0

notInInit ==
  <<cfg, localFiles, kubeconfigLocal, cur, loadErr, tempDir, downloadedFiles, sessions,
    remote, nodeState, log, warnings, applyErr, kcErr, kcContent, cleanups,
    validateResult, run, arg, ret, calls>>

MainInitStat_NoCheck ==
  /\ pc = "initStat"
  /\ pc' = "initRead"
  /\ exitCode' = exitCode
  /\ initYaml' = initYaml
  /\ UNCHANGED notInInit

\* main.go 146-149: os.Stat(out) succeeds: "init.yaml already exists", exit 1.
MainInitStat ==
  /\ pc = "initStat"
  /\ IF initYaml.exists
       THEN pc' = "exited" /\ exitCode' = 1
       ELSE pc' = "initRead" /\ exitCode' = exitCode
  /\ initYaml' = initYaml
  /\ UNCHANGED notInInit

\* main.go 150-155: os.ReadFile(templatePath); the template may be unreadable.
MainInitReadTemplate ==
  /\ pc = "initRead"
  /\ \E readable \in BOOLEAN :
       IF readable
         THEN pc' = "initWrite" /\ exitCode' = exitCode
         ELSE pc' = "exited" /\ exitCode' = 1
  /\ initYaml' = initYaml
  /\ UNCHANGED notInInit

\* main.go 156-162: os.WriteFile(out, content, 0644), then exit 0.
\* os.WriteFile opens with O_WRONLY|O_CREATE|O_TRUNC and writes: the open
\* fails (nothing changes), the write fails (the file is there, cut short),
\* or the content is written.
MainInitWriteFile ==
  /\ pc = "initWrite"
  /\ \E w \in { [ok |-> FALSE, file |-> initYaml],
                [ok |-> FALSE, file |-> ConfigFile(NoFile.content)],
                [ok |-> TRUE, file |-> ConfigFile(TemplateDoc)] } :
       /\ initYaml' = w.file
       /\ exitCode' = IF w.ok THEN 0 ELSE 1
  /\ pc' = "exited"
  /\ UNCHANGED notInInit

NextInit == MainInitStat \/ MainInitReadTemplate \/ MainInitWriteFile

SpecInit == InitCommand /\ [][NextInit]_vars

\* C32: init never overwrites an existing configuration: when init.yaml
\* exists, init exits with a non-zero status and the file keeps its content;
\* init.yaml changes only in the write step of a run that found no file, and a
\* run that exits with status 0 has left the template in it.
C32_InitNeverOverwrites ==
  /\ [][/\ initYaml.exists => initYaml' = initYaml
        /\ (pc = "initStat" /\ initYaml.exists) => (pc' = "exited" /\ exitCode' = 1)
        /\ initYaml' # initYaml => (pc = "initWrite" /\ ~initYaml.exists)]_vars
  /\ []((pc = "exited" /\ exitCode = 0) => initYaml = ConfigFile(TemplateDoc))
  /\ []((pc = "exited" /\ initYaml \notin {NoFile, ConfigFile(TemplateDoc),
                                         ConfigFile(NoFile.content)})
          => (exitCode = 1 /\ initYaml = ConfigFile(cfg)))

\* init was run where the user's configuration already was: it exited with
\* status 1 and the file still holds that configuration.
C32_Witness ==
  /\ pc = "exited"
  /\ exitCode = 1
  /\ initYaml = ConfigFile(cfg)
  /\ cfg # TemplateDoc
  /\ Len(cfg.Servers) >= 2

\* init was run where no init.yaml was: it wrote the template and exited 0.
C32_WitnessCreated ==
  /\ pc = "exited"
  /\ exitCode = 0
  /\ initYaml = ConfigFile(TemplateDoc)

====
